---- MODULE Spec2Model ----
(***************************************************************************)
(* EnhancedGeminiFramework (src/src/lib/gemini-framework.ts): the request  *)
(* orchestration and usage accounting of the dashboard.                    *)
(*                                                                         *)
(* One framework instance.  Every async method is cut at its awaited       *)
(* calls: one action runs the code from one await to the next, and the     *)
(* answer of the awaited collaborator (generation client, persistence      *)
(* client) is chosen by the environment from the small sets below.  An     *)
(* await of one of the instance's own async methods (assessProfundity,     *)
(* storeConversation) is a cut too: the method returns in one action and   *)
(* the caller goes on in another, so other callbacks may run in between.   *)
(*                                                                         *)
(* Units.  Token counts, request counts and times are whole numbers.       *)
(* costEstimate and every value added to it is an IEEE 754 double, as a    *)
(* JavaScript number is: a quotient, a product and a sum are each rounded  *)
(* to 53 bits, ties to even (section "numbers").                           *)
(* A profundity score is kept in tenths of a point (ScoreUnit), so that    *)
(* userRequest.length / 10 is the length itself and 50.5 points are 505.   *)
(* Times are milliseconds.  Date.now() is modelled by the durations of the *)
(* awaited calls; the timestamp field of a history entry is left out.      *)
(***************************************************************************)
EXTENDS Integers, Sequences, FiniteSets, TLC

\* ------------------------------------------------------------ bounds
\* Operations (assessProfundity, processRequest) that may reach the network
\* in one behaviour of Spec.
MaxRequests == 2
\* Samples recorded in one behaviour of SpecWindow.
MaxSamples == 102
\* Requests of SpecWindow whose generation call is slow.
MaxSlow == 1
\* Messages a conversation component accepts in one behaviour of SpecChat.
MaxSends == 2
\* Connection attempts of a dashboard in one behaviour of SpecDash.
MaxConnects == 3

\* ------------------------------------------------------------ program constants
HistoryLimit == 100
\* Tenths in a point of the profundity score, and n points in tenths.
ScoreUnit == 10
Points(n) == ScoreUnit * n
ProfoundThreshold == Points(50)
FallbackScore == Points(25)
MinKeyLength == 10
LengthDivisor == 10
LengthCap == Points(30)
KeywordWeight == Points(15)
ScoreCap == Points(100)

RECURSIVE Pow2(_)
Pow2(n) == IF n = 0 THEN 1 ELSE 2 * Pow2(n - 1)

\* ------------------------------------------------------------ numbers
\* A JavaScript number that is not a whole count (costEstimate and the
\* terms added to it) is an IEEE 754 binary64 value.  Those of the program
\* are zero or positive and normal: [m |-> <<>>, e |-> 0] is zero, any other
\* is m * 2^e with 2^52 <= m < 2^53.  The significand m is written in limbs
\* of 15 bits, the least significant first, so that every intermediate
\* product stays below 2^31.
LimbBits == 15
LimbBase == Pow2(LimbBits)
Precision == 53

RECURSIVE BigOf(_)
BigOf(n) == IF n = 0 THEN <<>> ELSE <<n % LimbBase>> \o BigOf(n \div LimbBase)

RECURSIVE BigNorm(_)
BigNorm(a) ==
  IF a # <<>> /\ a[Len(a)] = 0 THEN BigNorm(SubSeq(a, 1, Len(a) - 1)) ELSE a

RECURSIVE BigAddCarry(_, _, _)
BigAddCarry(a, b, c) ==
  IF a = <<>> /\ b = <<>>
    THEN BigOf(c)
    ELSE LET x == (IF a = <<>> THEN 0 ELSE Head(a))
                    + (IF b = <<>> THEN 0 ELSE Head(b)) + c
         IN <<x % LimbBase>>
              \o BigAddCarry(IF a = <<>> THEN a ELSE Tail(a),
                             IF b = <<>> THEN b ELSE Tail(b), x \div LimbBase)

BigAdd(a, b) == BigAddCarry(a, b, 0)

\* a * k + c for 0 <= k, c < LimbBase.
RECURSIVE BigMulSmall(_, _, _)
BigMulSmall(a, k, c) ==
  IF a = <<>>
    THEN BigOf(c)
    ELSE LET x == Head(a) * k + c
         IN <<x % LimbBase>> \o BigMulSmall(Tail(a), k, x \div LimbBase)

RECURSIVE BigMul(_, _)
BigMul(a, b) ==
  IF b = <<>>
    THEN <<>>
    ELSE BigNorm(BigAdd(BigMulSmall(a, Head(b), 0),
                        IF Tail(b) = <<>> THEN <<>>
                        ELSE <<0>> \o BigMul(a, Tail(b))))

\* Quotient and remainder of a by d, for 0 < d < 2^16.
RECURSIVE BigDivSmall(_, _)
BigDivSmall(a, d) ==
  IF a = <<>>
    THEN [q |-> <<>>, r |-> 0]
    ELSE LET hi == BigDivSmall(Tail(a), d)
             x == hi.r * LimbBase + Head(a)
         IN [q |-> <<x \div d>> \o hi.q, r |-> x % d]

RECURSIVE BigLess(_, _)
BigLess(a, b) ==
  IF Len(a) # Len(b) THEN Len(a) < Len(b)
  ELSE IF a = <<>> THEN FALSE
  ELSE IF a[Len(a)] # b[Len(b)] THEN a[Len(a)] < b[Len(b)]
  ELSE BigLess(SubSeq(a, 1, Len(a) - 1), SubSeq(b, 1, Len(b) - 1))

RECURSIVE BitsOf(_)
BitsOf(n) == IF n = 0 THEN 0 ELSE 1 + BitsOf(n \div 2)

BitLength(a) ==
  IF a = <<>> THEN 0 ELSE LimbBits * (Len(a) - 1) + BitsOf(a[Len(a)])

ShiftLeft(a, s) ==
  IF a = <<>> THEN a
  ELSE [i \in 1..(s \div LimbBits) |-> 0] \o BigMulSmall(a, Pow2(s % LimbBits), 0)

\* a shifted right by s bits, and whether a one was shifted out.
ShiftRight(a, s) ==
  LET k == s \div LimbBits
      kept == IF k >= Len(a) THEN <<>> ELSE SubSeq(a, k + 1, Len(a))
      dropped == IF k >= Len(a) THEN a ELSE SubSeq(a, 1, k)
      d == BigDivSmall(kept, Pow2(s % LimbBits))
  IN [ q |-> BigNorm(d.q),
       inexact |-> d.r # 0 \/ \E i \in 1..Len(dropped) : dropped[i] # 0 ]

IsOdd(a) == a # <<>> /\ a[1] % 2 = 1

\* The double nearest to (n + f) * 2^e, ties to even, where n > 0 and
\* 0 <= f < 1 with f > 0 exactly when inexact (then n has more than
\* Precision + 1 bits).
RoundToDouble(n, e, inexact) ==
  LET len == BitLength(n)
  IN IF len <= Precision
       THEN [ m |-> ShiftLeft(n, Precision - len), e |-> e - (Precision - len) ]
       ELSE LET s == len - Precision
                low == ShiftRight(n, s - 1)
                half == ShiftRight(low.q, 1)
                up == half.inexact /\ (low.inexact \/ inexact \/ IsOdd(half.q))
                q == IF up THEN BigAdd(half.q, <<1>>) ELSE half.q
            IN IF BitLength(q) > Precision
                 THEN [ m |-> ShiftRight(q, 1).q, e |-> e + s + 1 ]
                 ELSE [ m |-> q, e |-> e + s ]

Zero == [ m |-> <<>>, e |-> 0 ]

RECURSIVE DivideAll(_, _)
DivideAll(x, ds) ==
  IF ds = <<>> THEN x
  ELSE LET d == BigDivSmall(x.q, Head(ds))
       IN DivideAll([q |-> BigNorm(d.q), inexact |-> x.inexact \/ d.r # 0],
                    Tail(ds))

\* The double nearest to n / (ds[1] * ... * ds[k]): a whole number n
\* divided, or a decimal literal read.
QuotientBits == 6 * LimbBits
DoubleOfRatio(n, ds) ==
  IF n = 0 THEN Zero
  ELSE LET x == DivideAll([q |-> ShiftLeft(BigOf(n), QuotientBits),
                           inexact |-> FALSE], ds)
       IN RoundToDouble(x.q, 0 - QuotientBits, x.inexact)

DoubleMul(x, y) ==
  IF x = Zero \/ y = Zero THEN Zero
  ELSE RoundToDouble(BigMul(x.m, y.m), x.e + y.e, FALSE)

DoubleAdd(x, y) ==
  IF x = Zero THEN y
  ELSE IF y = Zero THEN x
  ELSE LET e == IF x.e < y.e THEN x.e ELSE y.e
       IN RoundToDouble(BigAdd(ShiftLeft(x.m, x.e - e), ShiftLeft(y.m, y.e - e)),
                        e, FALSE)

DoubleLess(x, y) ==
  IF y = Zero THEN FALSE
  ELSE IF x = Zero THEN TRUE
  ELSE IF x.e # y.e THEN x.e < y.e
  ELSE BigLess(x.m, y.m)

DoubleLeq(x, y) == x = y \/ DoubleLess(x, y)

\* The significand hi * 10^8 + lo.
Significand(hi, lo) ==
  BigAdd(BigMulSmall(BigMulSmall(BigOf(hi), 10000, 0), 10000, 0), BigOf(lo))

\* The whole number nearest to x * 10^8 (halves upwards): x in units of
\* 1e-8 dollars, the unit in which the cost of one token is whole.
RECURSIVE IntOf(_)
IntOf(a) == IF a = <<>> THEN 0 ELSE Head(a) + LimbBase * IntOf(Tail(a))

CostUnits(x) ==
  IF x = Zero THEN 0
  ELSE LET n == BigMulSmall(BigMulSmall(x.m, 10000, 0), 10000, 0)
           twice == ShiftRight(n, (0 - x.e) - 1).q
       IN IntOf(ShiftRight(BigAdd(twice, <<1>>), 1).q)

\* The literals 0.00015 and 0.0006 of the cost estimate, and its divisor.
InputRate == DoubleOfRatio(15, <<100, 1000>>)
OutputRate == DoubleOfRatio(6, <<10, 1000>>)
PerThousand == 1000

FlashModel == "gemini-1.5-flash"
ProModel == "gemini-1.5-pro"
TierKeys == {"tier1-pre", "tier2-pre", "tier3-pre"}

\* ------------------------------------------------------------ inputs and answers
\* The callers of Spec: one at a time.  Procs are all the call slots.
Procs == {1, 2}
SeqProcs == {1}

\* apiKey lengths given to updateApiKey.
KeyLengths == {0, 10, 11}

\* A message is its length and the vocabulary keywords its lower-cased
\* text contains.
Messages ==
  { [len |-> 20, kw |-> {}],
    [len |-> 400, kw |-> {"quantum", "ethics"}] }

\* totalTokens answered by countTokens.
TokenVals == {1, 1000}
\* totalTokens answered by countTokens for a tier text.
TierTokenVals == {2}
\* totalTokens answered by countTokens for the scoring prompt.
ScoreTokenVals == {7}
\* profundity_score of the scoring model's JSON reply.
ReplyScores == {Points(50), Points(51), Points(150)}
\* Text answered by the generation call.
Replies == {"reply"}
\* Elapsed milliseconds of the scoring generateContent call and of the
\* generation call (countTokens calls are taken to answer within the same
\* millisecond).
ScoreDurations == {30}
Durations == {10}

\* Multimedia requests of one generateMultimedia call, and the outcomes of
\* Math.random().
MediaRequests ==
  { << [type |-> "plotly", prompt |-> "sales", width |-> 0, height |-> 0],
       [type |-> "video", prompt |-> "clip", width |-> 0, height |-> 0],
       [type |-> "image", prompt |-> "logo", width |-> 800, height |-> 0] >> }
RandomVals == {0, 99}

\* ------------------------------------------------------------ state
VARIABLES
  genai,           \* this.genai !== null
  supabase,        \* this.supabase is set
  cache,           \* this.cache: key -> [content, tokens]
  stats,           \* this.stats
  requestHistory,  \* this.requestHistory (without timestamps)
  proc,            \* per call slot: the running method, its position and locals
  started,         \* number of operations that went to the network
  samples,         \* every latency sample ever recorded, oldest first
  ledger,          \* what an observer of the calls has added up
  chat,            \* the state of the conversation component, once mounted
  dash             \* the state of the dashboard component, once mounted

vars ==
  <<genai, supabase, cache, stats, requestHistory, proc, started, samples, ledger,
    chat, dash>>

\* ------------------------------------------------------------ helpers
Min(a, b) == IF a < b THEN a ELSE b

RECURSIVE SumTimes(_)
SumTimes(h) ==
  IF h = <<>> THEN 0 ELSE h[1].response_time + SumTimes(Tail(h))

RECURSIVE SumSeq(_)
SumSeq(s) == IF s = <<>> THEN 0 ELSE s[1] + SumSeq(Tail(s))

\* Math.round(n / d) for n >= 0, d > 0.
RoundDiv(n, d) == (2 * n + d) \div (2 * d)

\* Array.prototype.slice(-k)
LastK(s, k) ==
  IF Len(s) <= k THEN s ELSE SubSeq(s, Len(s) - k + 1, Len(s))

InitialStats ==
  [ totalTokensUsed |-> 0, cachedTokens |-> 0,
    tier1Tokens |-> 0, tier2Tokens |-> 0, tier3Tokens |-> 0,
    profundityCheckTokens |-> 0, finalResponseTokens |-> 0,
    memoryAnnotationTokens |-> 0, multimediaTokens |-> 0,
    inputTokens |-> 0, outputTokens |-> 0, totalRequests |-> 0,
    averageResponseTime |-> 0, costEstimate |-> Zero ]

NoAssessment == [profundity_score |-> 0, reasoning |-> "none"]
NoResult == [kind |-> "none"]
NoCache == [k \in {} |-> 0]
NoSnapshot ==
  [ stats |-> InitialStats, history |-> <<>>, genai |-> FALSE, tiers |-> FALSE,
    cache |-> NoCache ]

IdleProc ==
  [ op |-> "none", pc |-> "idle",
    request |-> [len |-> 0, kw |-> {}],
    elapsed |-> 0,          \* Date.now() - startTime of processRequest
    scoreTime |-> 0,        \* responseTime of assessProfundity
    scoreElapsed |-> 0,     \* milliseconds the scoring generateContent took
    assessment |-> NoAssessment,
    targetModel |-> "none",
    isProfound |-> FALSE,
    payload |-> <<>>,       \* the tier contents of fullPayload
    usage |-> 0,
    outputTokens |-> 0,
    responseTime |-> 0,
    genTime |-> 0,          \* milliseconds the generation call took
    tierCounts |-> <<>>,
    issued |-> {},          \* collaborator calls issued by the running method
    genModel |-> "none",    \* the model generateContent was issued against
    genOk |-> FALSE,        \* the generation call of processRequest succeeded
    response |-> "none",    \* response.text()
    row |-> NoResult,       \* the row handed to the persistence insert
    scoreFault |-> "none",  \* what failed inside assessProfundity, if anything
    scoreUsage |-> 0,       \* usage.totalTokens of assessProfundity
    scored |-> FALSE,       \* assessProfundity tracked its usage
    fault |-> "none",       \* the awaited call of processRequest that threw
    insertAnswer |-> "none",
    pre |-> NoSnapshot,     \* the instance when the method was called
    result |-> NoResult ]

AllIdle == \A q \in Procs : proc[q].pc = "idle"

TiersCached(c) == TierKeys \subseteq DOMAIN c

\* The instance as a method finds it when it is called.
Snapshot ==
  [ stats |-> stats, history |-> requestHistory, genai |-> genai,
    tiers |-> TiersCached(cache), cache |-> cache ]

\* No conversation component and no dashboard are mounted.
NoChat == [kind |-> "none"]
NoDash == [kind |-> "none"]

\* The instance after construction.
InitFramework ==
  /\ genai \in BOOLEAN
  /\ supabase \in BOOLEAN
  /\ cache = NoCache
  /\ stats = InitialStats
  /\ requestHistory = <<>>
  /\ proc = [p \in Procs |-> IdleProc]
  /\ started = 0
  /\ samples = <<>>
  /\ ledger = [ calls |-> 0, io |-> 0, scoring |-> 0, clean |-> TRUE,
                input |-> 0, output |-> 0, scorings |-> 0,
                okScoring |-> 0, okScorings |-> 0,
                log |-> <<>>, settled |-> <<>> ]

\* The instance used directly, without the components.
Init == InitFramework /\ chat = NoChat /\ dash = NoDash

\* Return of a method: the slot is idle again and holds what was returned.
Return(p, r) == [proc[p] EXCEPT !.pc = "idle", !.result = r]

\* ------------------------------------------------------------ updateApiKey
updateApiKey(p, keyLen) ==
  /\ proc[p].pc = "idle"
  /\ genai' = (IF keyLen > MinKeyLength THEN TRUE ELSE genai)
  /\ proc' = [proc EXCEPT ![p] =
       [IdleProc EXCEPT !.op = "updateApiKey",
                        !.result = [kind |-> "returned", value |-> (keyLen > MinKeyLength)]]]
  /\ UNCHANGED <<supabase, cache, stats, requestHistory, started, samples>>

\* ------------------------------------------------------------ clearCache
\* Mutant: every statistic is reset.
ClearedStatsAll(s) ==
  [f \in DOMAIN s |-> IF f = "costEstimate" THEN Zero ELSE 0]

ClearedStats(s) ==
  [s EXCEPT !.cachedTokens = 0, !.tier1Tokens = 0,
            !.tier2Tokens = 0, !.tier3Tokens = 0]

\* Mutant: clearing the cache drops the generation client too.
clearCacheDisconnects(p) ==
  /\ proc[p].pc = "idle"
  /\ cache' = NoCache
  /\ stats' = ClearedStats(stats)
  /\ genai' = FALSE
  /\ proc' = [proc EXCEPT ![p] =
       [IdleProc EXCEPT !.op = "clearCache", !.pre = Snapshot,
                        !.result = [kind |-> "returned", value |-> "undefined"]]]
  /\ UNCHANGED <<supabase, requestHistory, started, samples>>

clearCache(p) ==
  /\ proc[p].pc = "idle"
  /\ cache' = NoCache
  /\ stats' = ClearedStats(stats)
  /\ proc' = [proc EXCEPT ![p] =
       [IdleProc EXCEPT !.op = "clearCache", !.pre = Snapshot,
                        !.result = [kind |-> "returned", value |-> "undefined"]]]
  /\ UNCHANGED <<genai, supabase, requestHistory, started, samples>>

\* ------------------------------------------------------------ getStats
\* An object handed to a caller: either it has fields of its own, or it is
\* this.stats itself.  Fields reads it.
Fields(o) == IF o.shared THEN stats ELSE o.fields

\* Mutant: getStats hands out this.stats itself.
StatsCopyShared(s) == [shared |-> TRUE, fields |-> s]

\* Math.round((c / t) * 100) for c >= 0, t > 0, as doubles compute it.  The
\* quotient is rounded to 53 bits and so is its product with 100; the result
\* differs from the exact rounding only where 100 * c / t is exactly a half,
\* k / 2 with k odd, and the doubled rounding ends below it.  With
\* 25 * 2^j <= k < 50 * 2^j the quotient k / 200 has the mantissa
\* k * 2^(52 - j) / 25, which is rounded down by r / 25 for the remainder
\* r <= 12; times 100 this is 4 * r units of the quotient, against the 32
\* units that half a unit of the product is while k < 32 * 2^j (64 above).
RECURSIVE Pow2Mod25(_)
Pow2Mod25(n) == IF n = 0 THEN 1 ELSE (2 * Pow2Mod25(n - 1)) % 25

RECURSIVE BinadeUp(_, _)
BinadeUp(k, pw) == IF k < 50 * pw THEN 0 ELSE 1 + BinadeUp(k, 2 * pw)

RECURSIVE BinadeDown(_)
BinadeDown(k) == IF k >= 25 THEN 0 ELSE 1 + BinadeDown(2 * k)

\* The j with 25 * 2^j <= k < 50 * 2^j, for k > 0.
Binade(k) == IF k >= 25 THEN BinadeUp(k, 1) ELSE 0 - BinadeDown(k)

HalfRoundsDown(k) ==
  LET j == Binade(k)
      r == (k * Pow2Mod25((52 - j) % 20)) % 25
  IN /\ IF j >= 0 THEN k < 32 * Pow2(j) ELSE k * Pow2(0 - j) < 32
     /\ r \in 9..12

RoundPercent(c, t) ==
  LET k == (200 * c) \div t
  IN IF (200 * c) % t = 0 /\ k % 2 = 1 /\ HalfRoundsDown(k)
       THEN (k - 1) \div 2
       ELSE RoundDiv(100 * c, t)

\* getCacheStatus().efficiency_percentage: the cached tokens as a rounded
\* percentage of totalTokensUsed, 0 while nothing was used.
efficiency_percentage(s) ==
  IF s.totalTokensUsed > 0
    THEN RoundPercent(s.cachedTokens, s.totalTokensUsed)
    ELSE 0

\* The cacheEfficiency the dashboard computes from getStats() in updateStats.
cacheEfficiency(s) ==
  IF s.cachedTokens > 0
    THEN RoundPercent(s.cachedTokens,
                      IF s.totalTokensUsed > 1 THEN s.totalTokensUsed ELSE 1)
    ELSE 0

\* { ...this.stats }: every field of TokenStats is a number, so the spread
\* object shares nothing with this.stats.
StatsCopy(s) == [shared |-> FALSE, fields |-> s]

getStats(p) ==
  /\ proc[p].pc = "idle"
  /\ proc' = [proc EXCEPT ![p] =
       [IdleProc EXCEPT !.op = "getStats",
                        !.result = [kind |-> "returned", value |-> StatsCopy(stats)]]]
  /\ UNCHANGED <<genai, supabase, cache, stats, requestHistory, started, samples>>

\* A caller writes value v into field f of the object getStats gave it.
\* The number v as the field f holds it.
Written(f, v) == IF f = "costEstimate" THEN DoubleOfRatio(v, <<>>) ELSE v

mutateReturned(p, f, v) ==
  /\ proc[p].pc = "idle" /\ proc[p].op = "getStats"
  /\ IF proc[p].result.value.shared
       THEN stats' = [stats EXCEPT ![f] = Written(f, v)] /\ UNCHANGED proc
       ELSE proc' = [proc EXCEPT ![p].result.value.fields[f] = Written(f, v)]
            /\ UNCHANGED stats
  /\ UNCHANGED <<genai, supabase, cache, requestHistory, started, samples>>

\* ------------------------------------------------------------ generateMultimedia
\* A MultimediaRequest: its type, what its prompt asks for, and the width
\* and height of its config (0 when absent).  rnd stands for the outcomes of
\* the Math.random() calls of one generateMultimedia call.
PlotlyData(prompt, rnd) ==
  IF prompt = "scatter"
    THEN [type |-> "scatter", points |-> rnd, title |-> "Generated Scatter Plot"]
    ELSE [type |-> "bar", points |-> <<20, 14, 23, 25, 22>>,
          title |-> "Generated Bar Chart"]

ThreeJSData(prompt, rnd) ==
  IF prompt \in {"network", "graph"}
    THEN [type |-> "network", nodes |-> rnd]
    ELSE [type |-> "cubes", nodes |-> <<-4, -2, 0, 2, 4>>]

ImageUrl(r) ==
  << IF r.width = 0 THEN 512 ELSE r.width,
     IF r.height = 0 THEN 512 ELSE r.height >>

RECURSIVE MultimediaResponses(_, _)
MultimediaResponses(reqs, rnd) ==
  IF reqs = <<>> THEN <<>>
  ELSE LET r == Head(reqs)
           rest == MultimediaResponses(Tail(reqs), rnd)
       IN IF r.type = "plotly"
            THEN << [type |-> "plotly", data |-> PlotlyData(r.prompt, rnd),
                     model_used |-> "gemini-code-generator",
                     tokens_used |-> 150] >> \o rest
          ELSE IF r.type = "threejs"
            THEN << [type |-> "threejs", data |-> ThreeJSData(r.prompt, rnd),
                     model_used |-> "gemini-code-generator",
                     tokens_used |-> 200] >> \o rest
          ELSE IF r.type = "image"
            THEN << [type |-> "image", data |-> ImageUrl(r),
                     model_used |-> "gemini-image-generator",
                     tokens_used |-> 100] >> \o rest
          ELSE rest

\* The method has no await: it runs to its return in one step.
generateMultimedia(p, reqs, rnd) ==
  /\ proc[p].pc = "idle"
  /\ proc' = [proc EXCEPT ![p] =
       [IdleProc EXCEPT !.op = "generateMultimedia", !.request = reqs,
                        !.pre = Snapshot,
                        !.result = [kind |-> "returned",
                                    value |-> MultimediaResponses(reqs, rnd)]]]
  /\ UNCHANGED <<genai, supabase, cache, stats, requestHistory, started, samples>>

\* ------------------------------------------------------------ initializeTiers
\* Entry: without a client it returns false; otherwise the first countTokens
\* is issued.
initializeTiers(p) ==
  /\ proc[p].pc = "idle"
  /\ IF ~genai
       THEN proc' = [proc EXCEPT ![p] =
              [IdleProc EXCEPT !.op = "initializeTiers", !.pre = Snapshot,
                               !.result = [kind |-> "returned", value |-> FALSE]]]
       ELSE proc' = [proc EXCEPT ![p] =
              [IdleProc EXCEPT !.op = "initializeTiers", !.pc = "tier_count",
                               !.pre = Snapshot,
                               !.issued = {"countTokens"}]]
  /\ UNCHANGED <<genai, supabase, cache, stats, requestHistory, started, samples>>

\* A countTokens of a tier throws: the catch returns false.
initializeTiersFail(p) ==
  /\ proc[p].pc = "tier_count"
  /\ proc' = [proc EXCEPT ![p] =
       [Return(p, [kind |-> "returned", value |-> FALSE])
          EXCEPT !.fault = "tier count"]]
  /\ UNCHANGED <<genai, supabase, cache, stats, requestHistory, started, samples>>

\* Mutant: the tier counts are stored without their sum.
TierStatsNoSum(s, c) ==
  [s EXCEPT !.tier1Tokens = c[1], !.tier2Tokens = c[2], !.tier3Tokens = c[3]]

TierStats(s, c) ==
  [s EXCEPT !.tier1Tokens = c[1], !.tier2Tokens = c[2], !.tier3Tokens = c[3],
            !.cachedTokens = c[1] + c[2] + c[3]]

TierCache(c) ==
  [k \in TierKeys |->
     IF k = "tier1-pre" THEN [content |-> "tier1", tokens |-> c[1]]
     ELSE IF k = "tier2-pre" THEN [content |-> "tier2", tokens |-> c[2]]
     ELSE [content |-> "tier3", tokens |-> c[3]]]

\* Mutant: each tier is stored as soon as it is counted.
initializeTiersCountEager(p, n) ==
  /\ proc[p].pc = "tier_count"
  /\ LET c == Append(proc[p].tierCounts, n)
         key == IF Len(c) = 1 THEN "tier1-pre"
                ELSE IF Len(c) = 2 THEN "tier2-pre" ELSE "tier3-pre"
         stored == [k \in (DOMAIN cache) \cup {key} |->
                      IF k = key THEN [content |-> "tier", tokens |-> n]
                      ELSE cache[k]]
     IN /\ cache' = stored
        /\ stats' = [stats EXCEPT !.cachedTokens = @ + n]
        /\ IF Len(c) < 3
             THEN proc' = [proc EXCEPT ![p].tierCounts = c]
             ELSE proc' = [proc EXCEPT ![p] =
                    [Return(p, [kind |-> "returned", value |-> TRUE])
                       EXCEPT !.tierCounts = c]]
  /\ UNCHANGED <<genai, supabase, requestHistory, started, samples>>

\* A countTokens of a tier answers n: the next tier is counted, and after
\* the third the three tiers are stored and the method returns true.
initializeTiersCount(p, n) ==
  /\ proc[p].pc = "tier_count"
  /\ LET c == Append(proc[p].tierCounts, n) IN
       IF Len(c) < 3
         THEN /\ proc' = [proc EXCEPT ![p].tierCounts = c]
              /\ UNCHANGED <<cache, stats>>
         ELSE /\ cache' = TierCache(c)
              /\ stats' = TierStats(stats, c)
              /\ proc' = [proc EXCEPT ![p] =
                   [Return(p, [kind |-> "returned", value |-> TRUE])
                      EXCEPT !.tierCounts = c]]
  /\ UNCHANGED <<genai, supabase, requestHistory, started, samples>>

\* ------------------------------------------------------------ updateRequestHistory
\* Mutant: the history is never cut.
TrimHistoryNever(h) == h

\* "Keep only last 100 requests"
TrimHistory(h) ==
  IF Len(h) > HistoryLimit THEN LastK(h, HistoryLimit) ELSE h

PushHistory(h, tokens, responseTime, model) ==
  TrimHistory(Append(h, [tokens |-> tokens, response_time |-> responseTime,
                         model |-> model]))

\* Mutant: the mean is cut off instead of rounded.
AverageResponseTimeFloor(h) == SumTimes(h) \div Len(h)

AverageResponseTime(h) == RoundDiv(SumTimes(h), Len(h))

\* ------------------------------------------------------------ assessProfundity
KeywordScore(m) == KeywordWeight * Cardinality(m.kw)

\* The heuristic used without a client: Math.min(length / 10, 30) plus 15
\* for each keyword, in tenths (the division by 10 is exact in tenths).
HeuristicScore(m) ==
  Min(Points(m.len) \div LengthDivisor, LengthCap) + KeywordScore(m)

\* Mutant: the score is not capped.
HeuristicAssessmentUncapped(m) ==
  [ profundity_score |-> HeuristicScore(m),
    reasoning |-> IF HeuristicScore(m) > ProfoundThreshold
                    THEN "Complex theoretical question requiring deep analysis"
                    ELSE "Straightforward inquiry" ]

HeuristicAssessment(m) ==
  [ profundity_score |-> Min(HeuristicScore(m), ScoreCap),
    reasoning |-> IF HeuristicScore(m) > ProfoundThreshold
                    THEN "Complex theoretical question requiring deep analysis"
                    ELSE "Straightforward inquiry" ]

\* What the catch of assessProfundity returns.
ErrorAssessment ==
  [ profundity_score |-> FallbackScore,
    reasoning |-> "Error in assessment, defaulting to low profundity" ]

ModelAssessment(score) ==
  [profundity_score |-> score, reasoning |-> "model rationale"]

\* Mutant: the scoring prompt is booked as input tokens of a request too.
ScoringStatsAsInput(s, h, n) ==
  [s EXCEPT !.profundityCheckTokens = @ + n,
            !.totalTokensUsed = @ + n,
            !.inputTokens = @ + n,
            !.totalRequests = @ + 1,
            !.averageResponseTime = RoundDiv(SumTimes(h), Len(h))]

\* Mutant: the scoring tokens replace the running total.
ScoringStatsOverwrite(s, h, n) ==
  [s EXCEPT !.profundityCheckTokens = @ + n,
            !.totalTokensUsed = n,
            !.totalRequests = @ + 1,
            !.averageResponseTime = RoundDiv(SumTimes(h), Len(h))]

\* "Track usage" of assessProfundity.
ScoringStats(s, h, n) ==
  [s EXCEPT !.profundityCheckTokens = @ + n,
            !.totalTokensUsed = @ + n,
            !.totalRequests = @ + 1,
            !.averageResponseTime = AverageResponseTime(h)]

\* ------------------------------------------------------------ processRequest
\* Mutant: the threshold is inclusive.
IsProfoundInclusive(score) == score >= ProfoundThreshold

IsProfound(score) == score > ProfoundThreshold

TargetModel(profound) == IF profound THEN ProModel ELSE FlashModel

\* (tokens / 1000) * 0.00015 and (tokens / 1000) * 0.0006: the quotient is
\* rounded, then the product.
InputCost(n) == DoubleMul(DoubleOfRatio(n, <<PerThousand>>), InputRate)
OutputCost(n) == DoubleMul(DoubleOfRatio(n, <<PerThousand>>), OutputRate)

\* Mutant: the two rates are swapped.
RequestCostSwapped(in, out) == DoubleAdd(InputCost(out), OutputCost(in))

\* inputCost + outputCost, rounded once more.
RequestCost(in, out) == DoubleAdd(InputCost(in), OutputCost(out))

\* RequestCost, worked out once for the token counts that countTokens
\* answers here.
RequestCosts == [in \in TokenVals, out \in TokenVals |-> RequestCost(in, out)]

CostOf(in, out) ==
  IF in \in TokenVals /\ out \in TokenVals
    THEN RequestCosts[in, out]
    ELSE RequestCost(in, out)

\* Mutant: the output tokens are left out of totalTokensUsed.
ResponseStatsInputOnly(s, h, in, out) ==
  [s EXCEPT !.finalResponseTokens = @ + out,
            !.inputTokens = @ + in,
            !.outputTokens = @ + out,
            !.totalTokensUsed = @ + in,
            !.totalRequests = @ + 1,
            !.costEstimate = DoubleAdd(@, CostOf(in, out)),
            !.averageResponseTime = RoundDiv(SumTimes(h), Len(h))]

\* "Update statistics" of processRequest.
ResponseStats(s, h, in, out) ==
  [s EXCEPT !.finalResponseTokens = @ + out,
            !.inputTokens = @ + in,
            !.outputTokens = @ + out,
            !.totalTokensUsed = @ + (in + out),
            !.totalRequests = @ + 1,
            !.costEstimate = DoubleAdd(@, CostOf(in, out)),
            !.averageResponseTime = AverageResponseTime(h)]

\* processRequest from the point where it goes on after assessProfundity
\* returned a to the generation call: the routing, the payload built from
\* the tiers of the cache c as it is by then, the call.  A tier missing from
\* the cache makes tier.content throw before the try.
Route(q, a, c) ==
  IF ~TiersCached(c)
    THEN [q EXCEPT !.pc = "idle", !.assessment = a,
                   !.isProfound = IsProfound(a.profundity_score),
                   !.result = [kind |-> "rejected", error |-> "TypeError"]]
    ELSE [q EXCEPT !.pc = "generate", !.assessment = a,
                   !.isProfound = IsProfound(a.profundity_score),
                   !.targetModel = TargetModel(IsProfound(a.profundity_score)),
                   !.payload = <<c["tier1-pre"].content, c["tier2-pre"].content,
                                 c["tier3-pre"].content>>,
                   !.genModel = TargetModel(IsProfound(a.profundity_score)),
                   !.issued = @ \cup {"generate"}]

\* The return of assessProfundity with assessment a: to its caller when it
\* was called alone; otherwise its promise is fulfilled and processRequest,
\* waiting at await this.assessProfundity, goes on in a later job
\* (assessProfundityReturned), after the callbacks that were queued before it.
Assessed(q, a) ==
  IF q.op = "assessProfundity"
    THEN [q EXCEPT !.pc = "idle", !.assessment = a,
                   !.result = [kind |-> "resolved", value |-> a]]
    ELSE [q EXCEPT !.pc = "assessed", !.assessment = a]

\* Mutant: assessProfundity refuses to score while the tiers are not cached.
assessProfundityGuarded(p, m) ==
  /\ proc[p].pc = "idle"
  /\ IF ~TiersCached(cache)
       THEN /\ proc' = [proc EXCEPT ![p] =
                 [IdleProc EXCEPT !.op = "assessProfundity", !.request = m,
                    !.pre = Snapshot,
                    !.result = [kind |-> "rejected", error |-> "not initialized"]]]
            /\ UNCHANGED started
       ELSE IF ~genai
       THEN /\ proc' = [proc EXCEPT ![p] =
                 Assessed([IdleProc EXCEPT !.op = "assessProfundity", !.request = m,
                                           !.pre = Snapshot],
                          HeuristicAssessment(m))]
            /\ UNCHANGED started
       ELSE /\ started' = started + 1
            /\ proc' = [proc EXCEPT ![p] =
                 [IdleProc EXCEPT !.op = "assessProfundity", !.request = m,
                                  !.pc = "score_generate",
                                  !.issued = {"score"},
                                  !.pre = Snapshot]]
  /\ UNCHANGED <<genai, supabase, cache, stats, requestHistory, samples>>

\* assessProfundity called by itself.
assessProfundity(p, m) ==
  /\ proc[p].pc = "idle"
  /\ IF ~genai
       THEN /\ proc' = [proc EXCEPT ![p] =
                 Assessed([IdleProc EXCEPT !.op = "assessProfundity", !.request = m,
                                           !.pre = Snapshot],
                          HeuristicAssessment(m))]
            /\ UNCHANGED started
       ELSE /\ started' = started + 1
            /\ proc' = [proc EXCEPT ![p] =
                 [IdleProc EXCEPT !.op = "assessProfundity", !.request = m,
                                  !.pc = "score_generate",
                                  !.issued = {"score"},
                                  !.pre = Snapshot]]
  /\ UNCHANGED <<genai, supabase, cache, stats, requestHistory, samples>>

\* The scoring generateContent throws after d ms ("score call"), or it
\* answers after d ms and JSON.parse of its reply throws ("score parse").
ScoreFaults == {"score call", "score parse"}

scoreGenerateFail(p, f, d) ==
  /\ proc[p].pc = "score_generate"
  /\ proc' = [proc EXCEPT ![p] =
       Assessed([proc[p] EXCEPT !.scoreFault = f, !.elapsed = @ + d,
                                !.scoreElapsed = d],
                ErrorAssessment)]
  /\ UNCHANGED <<genai, supabase, cache, stats, requestHistory, started, samples>>

\* The scoring generateContent answers after d ms with a JSON of score s.
scoreGenerateOk(p, s, d) ==
  /\ proc[p].pc = "score_generate"
  /\ proc' = [proc EXCEPT ![p] =
       [@ EXCEPT !.pc = "score_count", !.scoreTime = d, !.elapsed = @ + d,
                 !.scoreElapsed = d,
                 !.assessment = ModelAssessment(s),
                 !.issued = @ \cup {"countTokens"}]]
  /\ UNCHANGED <<genai, supabase, cache, stats, requestHistory, started, samples>>

\* JSON.parse of the text "null": the assessment is null.
NullAssessment == [profundity_score |-> 0, reasoning |-> "null"]

\* The scoring generateContent answers after d ms with the JSON text null,
\* which parses.
scoreGenerateNull(p, d) ==
  /\ proc[p].pc = "score_generate"
  /\ proc' = [proc EXCEPT ![p] =
       [@ EXCEPT !.pc = "score_count", !.scoreTime = d, !.elapsed = @ + d,
                 !.scoreElapsed = d,
                 !.assessment = NullAssessment,
                 !.issued = @ \cup {"countTokens"}]]
  /\ UNCHANGED <<genai, supabase, cache, stats, requestHistory, started, samples>>

\* Mutant: the failure of countTokens leaves assessProfundity as a rejection.
scoreCountFailRethrown(p) ==
  /\ proc[p].pc = "score_count"
  /\ proc' = [proc EXCEPT ![p] =
       [@ EXCEPT !.pc = "idle", !.scoreFault = "score count",
                 !.result = [kind |-> "rejected", error |-> "score count"]]]
  /\ UNCHANGED <<genai, supabase, cache, stats, requestHistory, started, samples>>

\* countTokens(profundityPrompt) throws.
scoreCountFail(p) ==
  /\ proc[p].pc = "score_count"
  /\ proc' = [proc EXCEPT ![p] =
       Assessed([proc[p] EXCEPT !.scoreFault = "score count"], ErrorAssessment)]
  /\ UNCHANGED <<genai, supabase, cache, stats, requestHistory, started, samples>>

\* countTokens(profundityPrompt) answers n: the usage is tracked, then the
\* assessment is logged and returned.  Logging a null assessment throws (it
\* reads assessment.profundity_score), after the usage was tracked: the
\* catch returns the fallback.
scoreCountOk(p, n) ==
  /\ proc[p].pc = "score_count"
  /\ LET h == PushHistory(requestHistory, n, proc[p].scoreTime, FlashModel) IN
       /\ requestHistory' = h
       /\ stats' = ScoringStats(stats, h, n)
       /\ samples' = Append(samples, proc[p].scoreTime)
  /\ proc' = [proc EXCEPT ![p] =
       IF proc[p].assessment = NullAssessment
         THEN Assessed([proc[p] EXCEPT !.scoreUsage = n, !.scored = TRUE,
                                       !.scoreFault = "score log"],
                       ErrorAssessment)
         ELSE Assessed([proc[p] EXCEPT !.scoreUsage = n, !.scored = TRUE],
                       proc[p].assessment)]
  /\ UNCHANGED <<genai, supabase, cache, started>>

\* processRequest goes on with the assessment that assessProfundity
\* returned: it reads the three tiers from the cache as it is now and issues
\* the generation call, or is rejected when a tier is gone.
assessProfundityReturned(p) ==
  /\ proc[p].pc = "assessed"
  /\ proc' = [proc EXCEPT ![p] = Route(proc[p], proc[p].assessment, cache)]
  /\ UNCHANGED <<genai, supabase, cache, stats, requestHistory, started, samples>>

\* Mutant: the tiers are not looked at.
EntryErrorClientOnly(g, c) ==
  IF ~g THEN "Gemini API not initialized. Please provide a valid API key."
  ELSE "none"

\* The two guards at the entry of processRequest: the error thrown, or
\* "none".
EntryError(g, c) ==
  IF ~g THEN "Gemini API not initialized. Please provide a valid API key."
  ELSE IF ~TiersCached(c)
    THEN "Tiers not initialized. Please call initializeTiers() first."
  ELSE "none"

\* Entry of processRequest: the two guards, then assessProfundity up to its
\* generateContent (the client is there, so never the heuristic).
processRequest(p, m) ==
  /\ proc[p].pc = "idle"
  /\ IF EntryError(genai, cache) # "none"
       THEN /\ proc' = [proc EXCEPT ![p] =
                 [IdleProc EXCEPT !.op = "processRequest", !.request = m,
                    !.pre = Snapshot,
                    !.result = [kind |-> "rejected",
                                error |-> EntryError(genai, cache)]]]
            /\ UNCHANGED started
       ELSE /\ started' = started + 1
            /\ proc' = [proc EXCEPT ![p] =
                 [IdleProc EXCEPT !.op = "processRequest", !.request = m,
                    !.pc = "score_generate",
                    !.issued = {"score"},
                    !.pre = Snapshot]]
  /\ UNCHANGED <<genai, supabase, cache, stats, requestHistory, samples>>

\* What the catch of processRequest rethrows.
Rethrown(q, f) ==
  [q EXCEPT !.pc = "idle", !.fault = f,
            !.result = [kind |-> "rejected", error |-> f]]

\* generateContent(fullPayload) throws.
generateFail(p) ==
  /\ proc[p].pc = "generate"
  /\ proc' = [proc EXCEPT ![p] = Rethrown(proc[p], "generate")]
  /\ UNCHANGED <<genai, supabase, cache, stats, requestHistory, started, samples>>

\* Mutant: the clock is started right before the generation call.
generateOkTimedAlone(p, r, d) ==
  /\ proc[p].pc = "generate"
  /\ proc' = [proc EXCEPT ![p] =
       [@ EXCEPT !.pc = "count_payload", !.genOk = TRUE, !.response = r,
                 !.elapsed = @ + d, !.responseTime = d,
                 !.genTime = d,
                 !.issued = @ \cup {"countTokens"}]]
  /\ UNCHANGED <<genai, supabase, cache, stats, requestHistory, started, samples>>

\* generateContent(fullPayload) answers text r after d ms; startTime was
\* taken at the entry of processRequest.
generateOk(p, r, d) ==
  /\ proc[p].pc = "generate"
  /\ proc' = [proc EXCEPT ![p] =
       [@ EXCEPT !.pc = "count_payload", !.genOk = TRUE, !.response = r,
                 !.elapsed = @ + d, !.responseTime = proc[p].elapsed + d,
                 !.genTime = d,
                 !.issued = @ \cup {"countTokens"}]]
  /\ UNCHANGED <<genai, supabase, cache, stats, requestHistory, started, samples>>

\* countTokens(fullPayload) throws.
countPayloadFail(p) ==
  /\ proc[p].pc = "count_payload"
  /\ proc' = [proc EXCEPT ![p] = Rethrown(proc[p], "count payload")]
  /\ UNCHANGED <<genai, supabase, cache, stats, requestHistory, started, samples>>

\* countTokens(fullPayload) answers n.
countPayloadOk(p, n) ==
  /\ proc[p].pc = "count_payload"
  /\ proc' = [proc EXCEPT ![p] = [@ EXCEPT !.pc = "count_output", !.usage = n]]
  /\ UNCHANGED <<genai, supabase, cache, stats, requestHistory, started, samples>>

\* countTokens(response.text()) throws.
countOutputFail(p) ==
  /\ proc[p].pc = "count_output"
  /\ proc' = [proc EXCEPT ![p] = Rethrown(proc[p], "count output")]
  /\ UNCHANGED <<genai, supabase, cache, stats, requestHistory, started, samples>>

\* The row storeConversation inserts.
ConversationRow(q, s, out) ==
  [ user_request |-> q.request, ai_response |-> q.response,
    model_used |-> q.targetModel,
    token_usage |-> [ input_tokens |-> q.usage, output_tokens |-> out,
                      cached_tokens |-> s.cachedTokens,
                      total_tokens |-> q.usage + out,
                      cost_estimate |-> CostOf(q.usage, out) ],
    response_time_ms |-> s.averageResponseTime ]

\* The ProcessingResult of processRequest.
ProcessingResult(q, s, out, stored) ==
  [ kind |-> "resolved",
    main_response |-> q.response,
    model_used |-> q.targetModel,
    profundity_score |-> q.assessment.profundity_score,
    is_profound |-> q.isProfound,
    stats |-> s,
    response_time |-> q.responseTime,
    actual_tokens_used |-> q.usage + out,
    supabase_result |-> stored ]

\* Mutant: the totals are added to the statistics as they were read when
\* the method was called, before its awaits.
countOutputOkStale(p, n) ==
  /\ proc[p].pc = "count_output"
  /\ LET q == proc[p]
         h == PushHistory(requestHistory, q.usage + n, q.responseTime, q.targetModel)
         base == [stats EXCEPT
                    !.totalTokensUsed = q.pre.stats.totalTokensUsed
                                          + (IF q.scored THEN q.scoreUsage ELSE 0),
                    !.inputTokens = q.pre.stats.inputTokens,
                    !.outputTokens = q.pre.stats.outputTokens]
         s == ResponseStats(base, h, q.usage, n)
     IN /\ requestHistory' = h
        /\ stats' = s
        /\ samples' = Append(samples, q.responseTime)
        /\ IF supabase
             THEN proc' = [proc EXCEPT ![p] =
                    [q EXCEPT !.pc = "insert", !.outputTokens = n,
                              !.row = ConversationRow(q, s, n),
                              !.issued = @ \cup {"insert"}]]
             ELSE proc' = [proc EXCEPT ![p] =
                    [q EXCEPT !.pc = "idle", !.outputTokens = n,
                              !.result = ProcessingResult(q, s, n, "null")]]
  /\ UNCHANGED <<genai, supabase, cache, started>>

\* countTokens(response.text()) answers n: the statistics are updated, and
\* the conversation is stored when a persistence client is configured.
countOutputOk(p, n) ==
  /\ proc[p].pc = "count_output"
  /\ LET q == proc[p]
         h == PushHistory(requestHistory, q.usage + n, q.responseTime, q.targetModel)
         s == ResponseStats(stats, h, q.usage, n)
     IN /\ requestHistory' = h
        /\ stats' = s
        /\ samples' = Append(samples, q.responseTime)
        /\ IF supabase
             THEN proc' = [proc EXCEPT ![p] =
                    [q EXCEPT !.pc = "insert", !.outputTokens = n,
                              !.row = ConversationRow(q, s, n),
                              !.issued = @ \cup {"insert"}]]
             ELSE proc' = [proc EXCEPT ![p] =
                    [q EXCEPT !.pc = "idle", !.outputTokens = n,
                              !.result = ProcessingResult(q, s, n, "null")]]
  /\ UNCHANGED <<genai, supabase, cache, started>>

\* The insert answers: a row, an error object, or it throws.
InsertAnswers == {"success", "error", "thrown"}

StoreResult(a) == IF a = "success" THEN "stored" ELSE "not stored"

\* The insert answers a and storeConversation returns: its promise is
\* fulfilled, and processRequest, waiting at await this.storeConversation,
\* goes on in a later job (storeConversationReturned).
storeConversation(p, a) ==
  /\ proc[p].pc = "insert"
  /\ proc' = [proc EXCEPT ![p] = [@ EXCEPT !.pc = "stored", !.insertAnswer = a]]
  /\ UNCHANGED <<genai, supabase, cache, stats, requestHistory, started, samples>>

\* processRequest goes on with what storeConversation returned and returns
\* its result, with the statistics getStats() gives now.
storeConversationReturned(p) ==
  /\ proc[p].pc = "stored"
  /\ proc' = [proc EXCEPT ![p] =
       [@ EXCEPT !.pc = "idle",
                 !.result = ProcessingResult(proc[p], stats, proc[p].outputTokens,
                                             StoreResult(proc[p].insertAnswer))]]
  /\ UNCHANGED <<genai, supabase, cache, stats, requestHistory, started, samples>>

\* ------------------------------------------------------------ specification
\* The observer's ledger after a step of call slot p.  calls: the
\* processRequest calls that resolved; io, input, output: the tokens they
\* reported; scoring, scorings: the tokens of the scoring prompts that were
\* counted, and how many; okScoring, okScorings: the same for the calls that
\* resolved; clean: so far no call was rejected, assessProfundity was not
\* called by itself and the cache was not cleared; log: the samples in the
\* order in which the calls took them, with the slot that took each (and
\* the input and output tokens of a request sample);
\* settled: the slots of the resolved calls, in the order they resolved.
ObserveCalls(p) ==
  LET q == proc'[p]
      accounted == proc[p].pc = "count_output" /\ q.pc \in {"insert", "idle"}
                     /\ q.fault = "none"
      resolved == proc[p].pc # "idle" /\ q.pc = "idle"
                    /\ q.op = "processRequest" /\ q.result.kind = "resolved"
      rejected == q # proc[p] /\ q.pc = "idle" /\ q.result.kind = "rejected"
      alone == q # proc[p] /\ q.op = "assessProfundity"
      cleared == DOMAIN cache # {} /\ DOMAIN cache' = {}
      scoredNow == ~proc[p].scored /\ q.scored
  IN ledger' =
       [ calls |-> ledger.calls + (IF resolved THEN 1 ELSE 0),
         io |-> ledger.io + (IF accounted THEN q.usage + q.outputTokens ELSE 0),
         scoring |-> ledger.scoring + (IF scoredNow THEN q.scoreUsage ELSE 0),
         clean |-> ledger.clean /\ ~rejected /\ ~alone /\ ~cleared,
         input |-> ledger.input + (IF accounted THEN q.usage ELSE 0),
         output |-> ledger.output + (IF accounted THEN q.outputTokens ELSE 0),
         scorings |-> ledger.scorings + (IF scoredNow THEN 1 ELSE 0),
         okScoring |-> ledger.okScoring
                         + (IF resolved /\ q.scored THEN q.scoreUsage ELSE 0),
         okScorings |-> ledger.okScorings
                          + (IF resolved /\ q.scored THEN 1 ELSE 0),
         log |-> IF scoredNow
                   THEN Append(ledger.log,
                               [slot |-> p, kind |-> "scoring",
                                input |-> 0, output |-> 0,
                                tokens |-> q.scoreUsage,
                                response_time |-> q.scoreTime,
                                model |-> FlashModel])
                 ELSE IF accounted
                   THEN Append(ledger.log,
                               [slot |-> p, kind |-> "request",
                                input |-> q.usage, output |-> q.outputTokens,
                                tokens |-> q.usage + q.outputTokens,
                                response_time |-> q.responseTime,
                                model |-> q.targetModel])
                 ELSE ledger.log,
         settled |-> IF resolved THEN Append(ledger.settled, p)
                     ELSE ledger.settled ]

\* A step of call slot p that no component takes part in.
Observe(p) == ObserveCalls(p) /\ UNCHANGED <<chat, dash>>

\* One caller that awaits each call before it makes the next, and sends at
\* most MaxRequests operations to the network.  First the calls made on the
\* instance, then the continuations of the awaited calls.
Next ==
  \E p \in SeqProcs :
    \/ \E k \in KeyLengths : AllIdle /\ updateApiKey(p, k) /\ Observe(p)
    \/ AllIdle /\ initializeTiers(p) /\ Observe(p)
    \/ \E m \in Messages :
         AllIdle /\ assessProfundity(p, m) /\ started' <= MaxRequests /\ Observe(p)
    \/ \E m \in Messages :
         AllIdle /\ processRequest(p, m) /\ started' <= MaxRequests /\ Observe(p)
    \/ AllIdle /\ clearCache(p) /\ Observe(p)
    \/ AllIdle /\ getStats(p) /\ Observe(p)
    \/ \E reqs \in MediaRequests, rnd \in RandomVals :
         AllIdle /\ generateMultimedia(p, reqs, rnd) /\ Observe(p)
    \/ initializeTiersFail(p) /\ Observe(p)
    \/ \E n \in TierTokenVals : initializeTiersCount(p, n) /\ Observe(p)
    \/ \E f \in ScoreFaults, d \in ScoreDurations :
         scoreGenerateFail(p, f, d) /\ Observe(p)
    \/ \E d \in ScoreDurations : scoreGenerateNull(p, d) /\ Observe(p)
    \/ \E s \in ReplyScores, d \in ScoreDurations :
         scoreGenerateOk(p, s, d) /\ Observe(p)
    \/ scoreCountFail(p) /\ Observe(p)
    \/ \E n \in ScoreTokenVals : scoreCountOk(p, n) /\ Observe(p)
    \/ assessProfundityReturned(p) /\ Observe(p)
    \/ generateFail(p) /\ Observe(p)
    \/ \E r \in Replies, d \in Durations : generateOk(p, r, d) /\ Observe(p)
    \/ countPayloadFail(p) /\ Observe(p)
    \/ \E n \in TokenVals : countPayloadOk(p, n) /\ Observe(p)
    \/ countOutputFail(p) /\ Observe(p)
    \/ \E n \in TokenVals : countOutputOk(p, n) /\ Observe(p)
    \/ \E a \in InsertAnswers : storeConversation(p, a) /\ Observe(p)
    \/ storeConversationReturned(p) /\ Observe(p)

Spec == Init /\ [][Next]_vars

\* ------------------------------------------------------------ a long session
\* A session with a generation client and no persistence client: the tiers
\* are initialized once, then processRequest is called again and again and
\* every awaited call succeeds.  The generation call takes 10 ms, or 200 ms
\* for at most MaxSlow requests; at most MaxSamples latency samples are
\* recorded (two per request: the scoring call and the request).
WindowDurations == {10, 200}
WindowScores == {Points(50)}
WindowTokenVals == {1}

SlowSamples == Cardinality({i \in DOMAIN samples : samples[i] >= 200})

InitWindow == Init /\ genai /\ ~supabase

NextWindow ==
  \E p \in SeqProcs :
    \/ AllIdle /\ ~TiersCached(cache) /\ initializeTiers(p) /\ Observe(p)
    \/ \E m \in {[len |-> 20, kw |-> {}]} :
         /\ AllIdle /\ TiersCached(cache)
         /\ Len(samples) + 2 <= MaxSamples
         /\ processRequest(p, m) /\ Observe(p)
    \/ \E n \in TierTokenVals : initializeTiersCount(p, n) /\ Observe(p)
    \/ \E s \in WindowScores, d \in ScoreDurations :
         scoreGenerateOk(p, s, d) /\ Observe(p)
    \/ \E n \in WindowTokenVals : scoreCountOk(p, n) /\ Observe(p)
    \/ assessProfundityReturned(p) /\ Observe(p)
    \/ \E r \in Replies, d \in WindowDurations :
         /\ d >= 200 => SlowSamples < MaxSlow
         /\ generateOk(p, r, d) /\ Observe(p)
    \/ \E n \in WindowTokenVals : countPayloadOk(p, n) /\ Observe(p)
    \/ \E n \in WindowTokenVals : countOutputOk(p, n) /\ Observe(p)

SpecWindow == InitWindow /\ [][NextWindow]_vars

\* ------------------------------------------------------------ tier accounting
\* A session with a generation client and no persistence client in which the
\* tiers are initialized, cleared and initialized again; the Clear Cache
\* button can be pressed at any moment, also while initializeTiers or
\* processRequest is waiting for an awaited call.  A tier counts 0 or 3
\* tokens.  Requests are made once the tiers are cached and the awaited
\* calls of a request succeed.
TierCountVals == {0, 3}

InitTiers == Init /\ genai /\ ~supabase

NextTiers ==
  \/ \E p \in SeqProcs :
       \/ initializeTiers(p) /\ Observe(p)
       \/ \E n \in TierCountVals : initializeTiersCount(p, n) /\ Observe(p)
       \/ initializeTiersFail(p) /\ Observe(p)
       \/ \E m \in {[len |-> 20, kw |-> {}]} :
            /\ TiersCached(cache)
            /\ processRequest(p, m) /\ started' <= MaxRequests /\ Observe(p)
       \/ \E s \in WindowScores, d \in ScoreDurations :
            scoreGenerateOk(p, s, d) /\ Observe(p)
       \/ \E n \in ScoreTokenVals : scoreCountOk(p, n) /\ Observe(p)
       \/ assessProfundityReturned(p) /\ Observe(p)
       \/ \E r \in Replies, d \in Durations : generateOk(p, r, d) /\ Observe(p)
       \/ \E n \in WindowTokenVals : countPayloadOk(p, n) /\ Observe(p)
       \/ \E n \in WindowTokenVals : countOutputOk(p, n) /\ Observe(p)
  \/ \E p \in Procs \ SeqProcs : clearCache(p) /\ Observe(p)

SpecTiers == InitTiers /\ [][NextTiers]_vars

\* ------------------------------------------------------------ visualizations
\* generateMultimedia called again and again, with the results of the last
\* two calls kept; the tiers are initialized and cleared in between, so that
\* the calls find the instance in different states.  The prompts ask for a
\* bar chart, a scatter plot, a network, a graph or a row of cubes.
MediaPlotly(prompt) == [type |-> "plotly", prompt |-> prompt, width |-> 0, height |-> 0]
MediaThreeJS(prompt) == [type |-> "threejs", prompt |-> prompt, width |-> 0, height |-> 0]
MediaImage(w, h) == [type |-> "image", prompt |-> "logo", width |-> w, height |-> h]
MediaVideo == [type |-> "video", prompt |-> "clip", width |-> 0, height |-> 0]

MediaLists ==
  { <<>>, <<MediaVideo>>,
    <<MediaPlotly("sales")>>, <<MediaPlotly("scatter")>>,
    <<MediaThreeJS("network")>>, <<MediaThreeJS("graph")>>,
    <<MediaThreeJS("cubes")>>, <<MediaImage(0, 600)>>,
    <<MediaImage(800, 600), MediaVideo, MediaThreeJS("cubes"), MediaPlotly("sales")>>,
    <<MediaPlotly("scatter"), MediaVideo, MediaImage(0, 0), MediaThreeJS("network")>> }

InitMedia == Init /\ genai /\ ~supabase

NextMedia ==
  \E p \in Procs :
    \/ \E reqs \in MediaLists, rnd \in RandomVals :
         AllIdle /\ generateMultimedia(p, reqs, rnd) /\ Observe(p)
    \/ AllIdle /\ ~TiersCached(cache) /\ initializeTiers(p) /\ Observe(p)
    \/ \E n \in TierTokenVals : initializeTiersCount(p, n) /\ Observe(p)
    \/ AllIdle /\ TiersCached(cache) /\ clearCache(p) /\ Observe(p)

SpecMedia == InitMedia /\ [][NextMedia]_vars

\* ------------------------------------------------------------ held statistics
\* A session with a generation client in which the results of the calls are
\* kept in two places, so that an object returned by getStats is still held
\* while later calls run.  The caller awaits each call, writes into the
\* objects it holds, and every awaited call succeeds.
MutatedFields == {"totalRequests", "costEstimate"}
MutatedVals == {999}

InitSnapshot == Init /\ genai /\ ~supabase

NextSnapshot ==
  \E p \in Procs :
    \/ AllIdle /\ getStats(p) /\ Observe(p)
    \/ \E f \in MutatedFields, v \in MutatedVals :
         AllIdle /\ mutateReturned(p, f, v) /\ Observe(p)
    \/ AllIdle /\ ~TiersCached(cache) /\ initializeTiers(p) /\ Observe(p)
    \/ \E n \in TierTokenVals : initializeTiersCount(p, n) /\ Observe(p)
    \/ AllIdle /\ TiersCached(cache) /\ clearCache(p) /\ Observe(p)
    \/ \E m \in {[len |-> 20, kw |-> {}]} :
         AllIdle /\ assessProfundity(p, m) /\ started' <= MaxRequests /\ Observe(p)
    \/ \E s \in WindowScores, d \in ScoreDurations :
         scoreGenerateOk(p, s, d) /\ Observe(p)
    \/ \E n \in ScoreTokenVals : scoreCountOk(p, n) /\ Observe(p)

SpecSnapshot == InitSnapshot /\ [][NextSnapshot]_vars

\* ------------------------------------------------------------ no client
\* An instance built without an API key that never gets one: every
\* assessProfundity takes the heuristic.  The results of the calls are kept
\* in two places, and the other operations are called in between.  A
\* message is its length and the vocabulary words its lower-cased text
\* contains; the lengths from 100 on leave room for all ten words.
ComplexityIndicators ==
  { "consciousness", "philosophy", "quantum", "theoretical", "implications",
    "ethics", "metaphysics", "epistemology", "paradigm", "framework" }

HeuristicKeywords ==
  { {}, {"quantum"}, {"quantum", "ethics"},
    {"quantum", "ethics", "paradigm", "framework"},
    {"quantum", "ethics", "paradigm", "framework", "philosophy"},
    ComplexityIndicators }

HeuristicMessages ==
  {[len |-> 0, kw |-> {}], [len |-> 20, kw |-> {}]}
    \cup {[len |-> 7, kw |-> {}], [len |-> 25, kw |-> {"quantum"}]}
    \cup {[len |-> l, kw |-> k] : l \in {100, 200, 205, 210, 300, 1000},
                                  k \in HeuristicKeywords}

InitHeuristic == Init /\ ~genai

NextHeuristic ==
  \E p \in Procs :
    \/ \E m \in HeuristicMessages : AllIdle /\ assessProfundity(p, m) /\ Observe(p)
    \/ \E m \in Messages : AllIdle /\ processRequest(p, m) /\ Observe(p)
    \/ \E k \in {0, MinKeyLength} : AllIdle /\ updateApiKey(p, k) /\ Observe(p)
    \/ AllIdle /\ initializeTiers(p) /\ Observe(p)
    \/ AllIdle /\ clearCache(p) /\ Observe(p)
    \/ AllIdle /\ getStats(p) /\ Observe(p)

SpecHeuristic == InitHeuristic /\ [][NextHeuristic]_vars

\* ------------------------------------------------------------ concurrent calls
\* A host that does not await a processRequest before it calls the next:
\* the two slots run their calls at the same time, and control passes from
\* one to the other at the awaited calls only (every action is the code
\* between two awaits).  The tiers are initialized first.  The generation
\* call may fail; the other awaited calls succeed.
ConcurrentMessages == {[len |-> 20, kw |-> {}]}
ConcurrentFaults == {"score call"}
ConcurrentInserts == {"success"}

InitConcurrent == Init /\ genai

NextConcurrent ==
  \E p \in Procs :
    \/ AllIdle /\ ~TiersCached(cache) /\ initializeTiers(p) /\ Observe(p)
    \/ \E n \in TierTokenVals : initializeTiersCount(p, n) /\ Observe(p)
    \/ \E m \in ConcurrentMessages :
         /\ TiersCached(cache)
         /\ processRequest(p, m) /\ started' <= MaxRequests /\ Observe(p)
    \/ \E f \in ConcurrentFaults, d \in ScoreDurations :
         scoreGenerateFail(p, f, d) /\ Observe(p)
    \/ \E s \in WindowScores, d \in ScoreDurations :
         scoreGenerateOk(p, s, d) /\ Observe(p)
    \/ \E n \in ScoreTokenVals : scoreCountOk(p, n) /\ Observe(p)
    \/ assessProfundityReturned(p) /\ Observe(p)
    \/ generateFail(p) /\ Observe(p)
    \/ \E r \in Replies, d \in Durations : generateOk(p, r, d) /\ Observe(p)
    \/ \E n \in WindowTokenVals : countPayloadOk(p, n) /\ Observe(p)
    \/ \E n \in TokenVals : countOutputOk(p, n) /\ Observe(p)
    \/ \E a \in ConcurrentInserts : storeConversation(p, a) /\ Observe(p)
    \/ storeConversationReturned(p) /\ Observe(p)

SpecConcurrent == InitConcurrent /\ [][NextConcurrent]_vars

\* ------------------------------------------------------------ dashboards
\* GeminiDashboard in its two versions: the one that builds the framework in
\* an effect when its configuration props are set ("effect",
\* components/GeminiDashboard.tsx) and the one with the connection screen
\* ("connect", connectGemini).  Every attempt builds a framework of its own;
\* attempts holds, per attempt, what its initializeTiers returned.
DashKinds == {"effect", "connect"}

\* String.prototype.trim, on a text with or without blanks around it.
Trim(i) == [i EXCEPT !.pad = 0]

\* The API key typed into the connection screen: blank, too short for the
\* constructor to build a generation client, or long enough.
LongKey == [text |-> "AIzaSy", len |-> 39, pad |-> 0]
DashKeys ==
  { [text |-> "", len |-> 0, pad |-> 1], [text |-> "AIza", len |-> 4, pad |-> 0],
    LongKey }

\* The constructor builds a generation client for an apiKey of more than 10
\* characters.
HasClient(key) == Trim(key).len > MinKeyLength

\* new EnhancedGeminiFramework(...) returns, or createClient throws.
ConstructAnswers == {"constructed", "thrown"}

\* useState of stats in the two dashboards.
InitialDashStats(k) ==
  IF k = "effect"
    THEN [ totalTokensUsed |-> 0, cachedTokens |-> 0, totalRequests |-> 0,
           cacheEfficiency |-> 0 ]
    ELSE [ totalTokensUsed |-> 0, cachedTokens |-> 0, totalRequests |-> 0,
           cacheEfficiency |-> 0, averageResponseTime |-> 0,
           costEstimate |-> Zero ]

\* updateStats of components/GeminiDashboard.tsx on the statistics s that
\* getStats() of the framework returned.
updateStats(s) ==
  [ totalTokensUsed |-> s.totalTokensUsed, cachedTokens |-> s.cachedTokens,
    totalRequests |-> s.totalTokensUsed \div 100,
    cacheEfficiency |-> cacheEfficiency(s) ]

\* updateStats of the dashboard with the connection screen.
updateStatsConnect(s) ==
  [ totalTokensUsed |-> s.totalTokensUsed, cachedTokens |-> s.cachedTokens,
    totalRequests |-> s.totalRequests,
    averageResponseTime |-> s.averageResponseTime,
    costEstimate |-> s.costEstimate,
    cacheEfficiency |-> cacheEfficiency(s) ]

InitialDash(k) ==
  [ kind |-> k,
    framework |-> 0,          \* the attempt whose framework is held, 0: null
    isInitialized |-> FALSE, isConnecting |-> FALSE,
    connectionStatus |-> "disconnected", errorMessage |-> "",
    stats |-> InitialDashStats(k),
    attempts |-> <<>>,        \* "pending", "true", "false" per attempt
    clients |-> <<>>,         \* per attempt: its framework has a generation client
    tiers |-> <<>>,           \* per attempt: the tier counts in the
                              \* statistics of its framework
    mounted |-> TRUE,         \* FALSE once an error left the effect
    event |-> "mount",        \* the handler that ran last
    last |-> 0,               \* the attempt that ended last
    overlapped |-> FALSE ]    \* an attempt was started during another

\* The dashboard shows the conversation: it is rendered and the render gate
\* is passed.
Exposed(d) ==
  /\ d.mounted
  /\ IF d.kind = "effect" THEN d.framework # 0
     ELSE d.framework # 0 /\ d.isInitialized

Pending(d) == {a \in DOMAIN d.attempts : d.attempts[a] = "pending"}

\* The tier counts in the statistics s of a framework, and those of a
\* framework without cached tiers.
TierCountsOf(s) == <<s.tier1Tokens, s.tier2Tokens, s.tier3Tokens>>
NoTierCounts == <<0, 0, 0>>

\* The statistics of the framework of attempt a while no request was made
\* on it: only initializeTiers and clearCache have written them.
StatsOfAttempt(d, a) == TierStats(InitialStats, d.tiers[a])

\* The dashboard after the initialization effect ran up to the call of
\* initializeTiers (g: the apiKey of geminiConfig yields a generation
\* client): the new framework is stored at once.
EffectStarted(d, g) ==
  [d EXCEPT !.attempts = Append(@, "pending"),
            !.clients = Append(@, g), !.tiers = Append(@, NoTierCounts),
            !.framework = Len(d.attempts) + 1,
            !.overlapped = @ \/ Pending(d) # {},
            !.event = "effect"]

\* The dashboard after createClient threw in the constructor the effect
\* calls: nothing catches the error, setFramework and initializeTiers are
\* not reached, and the dashboard is no longer rendered.
EffectThrown(d) ==
  [d EXCEPT !.attempts = Append(@, "thrown"),
            !.clients = Append(@, FALSE), !.tiers = Append(@, NoTierCounts),
            !.mounted = FALSE,
            !.overlapped = @ \/ Pending(d) # {},
            !.event = "settled", !.last = Len(d.attempts) + 1]

\* The dashboard after the then-callback of the effect, when initializeTiers
\* of attempt a returned ok and getStats() of its framework returns s:
\* setIsInitialized(true); updateStats(fw).  The setters change nothing
\* once the dashboard is no longer rendered.
EffectSettled(d, a, ok, s) ==
  IF d.mounted
    THEN [d EXCEPT !.attempts[a] = IF ok THEN "true" ELSE "false",
                   !.tiers[a] = TierCountsOf(s),
                   !.isInitialized = TRUE,
                   !.stats = updateStats(s),
                   !.event = "settled", !.last = a]
    ELSE [d EXCEPT !.attempts[a] = IF ok THEN "true" ELSE "false",
                   !.tiers[a] = TierCountsOf(s)]

\* The dashboard after connectGemini ran up to its await: the key guard,
\* the flags, the construction of the framework (answer c), the call of
\* initializeTiers.
ConnectStarted(d, key, c) ==
  IF Trim(key).text = ""
    THEN [d EXCEPT !.errorMessage = "Please enter your Gemini API key",
                   !.event = "refused"]
  ELSE IF c = "thrown"
    THEN [d EXCEPT !.isConnecting = FALSE,
                   !.connectionStatus = "error",
                   !.errorMessage = "error.message",
                   !.attempts = Append(@, "thrown"),
                   !.clients = Append(@, FALSE), !.tiers = Append(@, NoTierCounts),
                   !.overlapped = @ \/ Pending(d) # {},
                   !.event = "settled",
                   !.last = Len(d.attempts) + 1]
  ELSE [d EXCEPT !.isConnecting = TRUE,
                 !.connectionStatus = "connecting",
                 !.errorMessage = "",
                 !.attempts = Append(@, "pending"),
                 !.clients = Append(@, HasClient(key)),
                 !.tiers = Append(@, NoTierCounts),
                 !.overlapped = @ \/ Pending(d) # {},
                 !.event = "connect"]

\* The dashboard after connectGemini went on when initializeTiers of
\* attempt a returned ok: the framework is stored, marked initialized and
\* its statistics s are shown, or the error is thrown and caught; finally
\* isConnecting is cleared.
ConnectSettled(d, a, ok, s) ==
  IF ok
    THEN [d EXCEPT !.attempts[a] = "true",
                   !.tiers[a] = TierCountsOf(s),
                   !.framework = a, !.isInitialized = TRUE,
                   !.connectionStatus = "connected",
                   !.stats = updateStatsConnect(s),
                   !.isConnecting = FALSE,
                   !.event = "settled", !.last = a]
    ELSE [d EXCEPT !.attempts[a] = "false",
                   !.connectionStatus = "error",
                   !.errorMessage = "Failed to initialize tiers",
                   !.isConnecting = FALSE,
                   !.event = "settled", !.last = a]

\* The initialization effect of components/GeminiDashboard.tsx, which runs
\* after the first render and when a configuration prop changes.  It does
\* nothing unless both props are set (both); otherwise the constructor
\* answers c, with a generation client or not (g).
initializationEffect(both, g, c) ==
  /\ dash.kind = "effect"
  /\ dash.mounted
  /\ IF ~both
       THEN dash' = [dash EXCEPT !.event = "skipped"]
       ELSE /\ Len(dash.attempts) < MaxConnects
            /\ dash' = IF c = "thrown" THEN EffectThrown(dash)
                       ELSE EffectStarted(dash, g)
  /\ UNCHANGED <<genai, supabase, cache, stats, requestHistory, proc, started,
                 samples, ledger, chat>>

\* initializeTiers of attempt a returns: true after three counts of n
\* tokens (with a generation client only), false otherwise, and the
\* then-callback of the effect runs.
initializationEffectSettled(a, ok, n) ==
  /\ dash.kind = "effect"
  /\ a \in Pending(dash)
  /\ ok => dash.clients[a]
  /\ dash' = EffectSettled(dash, a, ok,
                IF ok THEN TierStats(InitialStats, <<n, n, n>>) ELSE InitialStats)
  /\ UNCHANGED <<genai, supabase, cache, stats, requestHistory, proc, started,
                 samples, ledger, chat>>

\* connectGemini up to its await, called from the connection screen (shown
\* while the conversation is not).
connectGemini(key, c) ==
  /\ dash.kind = "connect"
  /\ ~Exposed(dash)
  /\ Len(dash.attempts) < MaxConnects
  /\ dash' = ConnectStarted(dash, key, c)
  /\ UNCHANGED <<genai, supabase, cache, stats, requestHistory, proc, started,
                 samples, ledger, chat>>

\* initializeTiers of attempt a returns (as above) and connectGemini goes on.
connectGeminiSettled(a, ok, n) ==
  /\ dash.kind = "connect"
  /\ a \in Pending(dash)
  /\ ok => dash.clients[a]
  /\ dash' = ConnectSettled(dash, a, ok,
                IF ok THEN TierStats(InitialStats, <<n, n, n>>) ELSE InitialStats)
  /\ UNCHANGED <<genai, supabase, cache, stats, requestHistory, proc, started,
                 samples, ledger, chat>>

\* The framework the dashboard holds is the instance: a conversation
\* component is mounted on it.  Otherwise (the dashboards by themselves) it
\* is the framework of an attempt, on which no request is made.
HoldsInstance == chat # NoChat

\* The Clear Cache button, shown once the render gate is passed:
\* framework.clearCache(); updateStats(framework).  On the instance
\* clearCache runs as call slot p, and the statistics shown are what
\* getStats() returns after it.
clearCacheClicked(p) ==
  /\ dash.kind = "connect"
  /\ Exposed(dash)
  /\ IF HoldsInstance
       THEN /\ clearCache(p)
            /\ ObserveCalls(p)
            /\ dash' = [dash EXCEPT
                 !.tiers[dash.framework] = NoTierCounts,
                 !.stats = updateStatsConnect(stats'),
                 !.event = "clear"]
            /\ UNCHANGED chat
       ELSE /\ dash' = [dash EXCEPT
                 !.tiers[dash.framework] = NoTierCounts,
                 !.stats = updateStatsConnect(
                             ClearedStats(StatsOfAttempt(dash, dash.framework))),
                 !.event = "clear"]
            /\ UNCHANGED <<genai, supabase, cache, stats, requestHistory, proc,
                           started, samples, ledger, chat>>

\* The Disconnect button, shown with the conversation.
disconnect ==
  /\ dash.kind = "connect"
  /\ Exposed(dash)
  /\ dash' = [dash EXCEPT !.framework = 0, !.isInitialized = FALSE,
                          !.connectionStatus = "disconnected",
                          !.event = "disconnect"]
  /\ UNCHANGED <<genai, supabase, cache, stats, requestHistory, proc, started,
                 samples, ledger, chat>>

InitDash ==
  /\ InitFramework /\ ~genai /\ ~supabase
  /\ chat = NoChat
  /\ dash \in {InitialDash(k) : k \in DashKinds}

NextDash ==
  \/ \E both, g \in BOOLEAN, c \in ConstructAnswers :
       initializationEffect(both, g, c)
  \/ \E a \in 1..MaxConnects, ok \in BOOLEAN, n \in TierTokenVals :
       initializationEffectSettled(a, ok, n)
  \/ \E key \in DashKeys, c \in ConstructAnswers : connectGemini(key, c)
  \/ \E a \in 1..MaxConnects, ok \in BOOLEAN, n \in TierTokenVals :
       connectGeminiSettled(a, ok, n)
  \/ \E p \in SeqProcs : clearCacheClicked(p)
  \/ disconnect

SpecDash == InitDash /\ [][NextDash]_vars

\* ------------------------------------------------------------ conversation components
\* ConversationInterface and EnhancedConversationInterface: the messages, the
\* input box and the processing flag (isProcessing, isLoading) of the
\* component, and where its handleSendMessage is waiting.  What the user
\* types is a text with or without blanks around it.  Each is shown by its
\* dashboard once the render gate is passed: ConversationInterface by the
\* one with the effect, EnhancedConversationInterface by the one with the
\* connection screen; which tab of that dashboard is selected is not part
\* of the state, and its Clear Cache button can be clicked at any moment.
ChatKinds == {"ConversationInterface", "EnhancedConversationInterface"}

HostOf(k) == IF k = "ConversationInterface" THEN "effect" ELSE "connect"

ChatInputs ==
  { [text |-> "", len |-> 0, pad |-> 0], [text |-> "", len |-> 0, pad |-> 1],
    [text |-> "hi", len |-> 2, pad |-> 0], [text |-> "hi", len |-> 2, pad |-> 1] }

EmptyInput == [text |-> "", len |-> 0, pad |-> 0]

\* The text a component hands to processRequest: userMessage.content (the
\* trimmed input) in ConversationInterface, the input as typed in
\* EnhancedConversationInterface.
RequestOf(k, i) ==
  IF k = "ConversationInterface"
    THEN [len |-> Trim(i).len, kw |-> {}]
    ELSE [len |-> i.len + 2 * i.pad, kw |-> {}]

\* A message of the list; send is the accepted send it belongs to (0 for a
\* message loaded from the stored history), costEstimate 0 when absent.
UserMessage(k, n, i) ==
  [ kind |-> "user", send |-> n, content |-> Trim(i).text,
    modelUsed |-> "none", costEstimate |-> Zero ]

AiMessage(k, n, r) ==
  [ kind |-> IF k = "ConversationInterface" THEN "ai" ELSE "assistant",
    send |-> n, content |-> r.main_response,
    modelUsed |-> r.model_used, costEstimate |-> r.stats.costEstimate ]

\* The entry appended when processRequest rejected.  The text of
\* EnhancedConversationInterface begins with the cross mark U+274C, written
\* here as its escape.
ErrorMessage(k, n) ==
  IF k = "ConversationInterface"
    THEN [ kind |-> "error", send |-> n,
           content |-> "Sorry, I encountered an error processing your request.",
           modelUsed |-> "none", costEstimate |-> Zero ]
    ELSE [ kind |-> "assistant", send |-> n,
           content |-> "\\u274C Sorry, I encountered an error processing your request. Please check your API key and try again.",
           modelUsed |-> "none", costEstimate |-> Zero ]

\* What getConversationHistory answers: the stored conversations, newest
\* first, each with the rows of its messages (cost 0 when the row has none,
\* 0.00000075 on the stored reply).
\* A conversation may be stored without messages.
StoredMessages ==
  << [ role |-> "user", content |-> "earlier", model_used |-> "none",
       cost |-> Zero ],
     [ role |-> "assistant", content |-> "reply", model_used |-> FlashModel,
       cost |-> DoubleOfRatio(75, <<10000, 10000>>) ] >>

HistoryAnswers ==
  { <<>>, << [messages |-> <<>>] >>, << [messages |-> StoredMessages] >> }

\* A stored row as loadConversationHistory maps it to a message of the list.
HistoryMessage(row) ==
  [ kind |-> row.role, send |-> 0, content |-> row.content,
    modelUsed |-> row.model_used, costEstimate |-> row.cost ]

RECURSIVE HistoryMessages(_)
HistoryMessages(rows) ==
  IF rows = <<>> THEN <<>>
  ELSE <<HistoryMessage(Head(rows))>> \o HistoryMessages(Tail(rows))

\* The component before its dashboard shows it.
InitialChat(k) ==
  [ kind |-> k, messages |-> <<>>, input |-> EmptyInput,
    isProcessing |-> FALSE,
    pc |-> "idle",          \* where handleSendMessage is waiting
    slot |-> 0,             \* the processRequest call it awaits
    history |-> "none",     \* "loading" once EnhancedConversationInterface
                            \* has called loadConversationHistory
    event |-> "none",       \* the handler that ran last ("ignored": a
                            \* handleSendMessage that returned at its guard)
    accepted |-> 0,         \* sends that passed the guard
    outcomes |-> <<>>,      \* how the awaited processRequest calls settled
    lost |-> 0 ]            \* sends accepted before a stored conversation
                            \* replaced the list

\* The component after its mount effect: EnhancedConversationInterface has
\* called loadConversationHistory.
Mounted(c) ==
  [c EXCEPT !.event = "mount",
            !.history = IF c.kind = "ConversationInterface" THEN @ ELSE "loading"]

\* The dashboard is rendered: with the effect its framework is built from
\* the props, with the connection screen Connect is clicked with a key in
\* the box; either builds the instance and calls initializeTiers (as call
\* slot p), and the first shows ConversationInterface at once.
dashboardStarts(p) ==
  /\ chat.kind \in ChatKinds
  /\ dash.attempts = <<>>
  /\ dash' = IF dash.kind = "effect"
               THEN EffectStarted(dash, genai)
               ELSE ConnectStarted(dash, LongKey, "constructed")
  /\ chat' = IF dash.kind = "effect" THEN Mounted(chat) ELSE chat
  /\ initializeTiers(p)
  /\ ObserveCalls(p)

\* A countTokens of a tier answers n.  With the third, initializeTiers
\* returns true and the dashboard goes on: the then-callback of the effect,
\* or the rest of connectGemini, which shows EnhancedConversationInterface.
dashboardTierCount(p, n) ==
  /\ chat.kind \in ChatKinds
  /\ initializeTiersCount(p, n)
  /\ ObserveCalls(p)
  /\ IF Len(proc[p].tierCounts) = 2
       THEN /\ dash' = IF dash.kind = "effect"
                         THEN EffectSettled(dash, 1, TRUE, stats')
                         ELSE ConnectSettled(dash, 1, TRUE, stats')
            /\ chat' = IF dash.kind = "effect" THEN chat ELSE Mounted(chat)
       ELSE UNCHANGED <<chat, dash>>

\* onChange of the text area, which is disabled while a request is pending.
typeInput(v) ==
  /\ chat.kind \in ChatKinds
  /\ Exposed(dash)
  /\ ~chat.isProcessing
  /\ chat' = [chat EXCEPT !.input = v, !.event = "type"]
  /\ UNCHANGED <<genai, supabase, cache, stats, requestHistory, proc, started,
                 samples, ledger, dash>>

\* Mutant: handleSendMessage without its guard.
handleSendMessageUnguarded(p) ==
  /\ chat.kind \in ChatKinds
  /\ Exposed(dash)
  /\ chat.accepted < MaxSends
  /\ chat' = [chat EXCEPT
       !.messages = Append(@, UserMessage(chat.kind, chat.accepted + 1, chat.input)),
       !.input = EmptyInput, !.isProcessing = TRUE,
       !.pc = "awaiting", !.slot = p, !.event = "send",
       !.accepted = @ + 1]
  /\ processRequest(p, RequestOf(chat.kind, chat.input))
  /\ ObserveCalls(p)
  /\ UNCHANGED dash

\* handleSendMessage up to its await: the guard, the user's message, the
\* cleared input, the flag, and processRequest up to its first await, as call
\* slot p.
handleSendMessage(p) ==
  /\ chat.kind \in ChatKinds
  /\ Exposed(dash)
  /\ IF Trim(chat.input).text = "" \/ chat.isProcessing
       THEN /\ chat' = [chat EXCEPT !.event = "ignored"]
            /\ UNCHANGED <<genai, supabase, cache, stats, requestHistory, proc,
                           started, samples, ledger>>
       ELSE /\ chat.accepted < MaxSends
            /\ chat' = [chat EXCEPT
                 !.messages = Append(@, UserMessage(chat.kind, chat.accepted + 1,
                                                    chat.input)),
                 !.input = EmptyInput, !.isProcessing = TRUE,
                 !.pc = "awaiting", !.slot = p, !.event = "send",
                 !.accepted = @ + 1]
            /\ processRequest(p, RequestOf(chat.kind, chat.input))
            /\ ObserveCalls(p)
  /\ UNCHANGED dash

\* handleSendMessage after processRequest settled.  Resolved: the AI message
\* is appended; ConversationInterface calls onStatsUpdate (updateStats of
\* its dashboard) and is done, EnhancedConversationInterface goes on to save
\* the two messages.  Rejected: the error entry is appended.  The finally
\* block clears the flag.
handleSendMessageSettled ==
  /\ chat.kind \in ChatKinds
  /\ chat.pc = "awaiting" /\ proc[chat.slot].pc = "idle"
  /\ LET r == proc[chat.slot].result
         basic == chat.kind = "ConversationInterface"
     IN IF r.kind = "resolved"
          THEN /\ chat' = [chat EXCEPT
                    !.messages = Append(@, AiMessage(chat.kind, chat.accepted, r)),
                    !.outcomes = Append(@, "resolved"), !.event = "settled",
                    !.pc = IF basic THEN "idle" ELSE "save_user",
                    !.isProcessing = ~basic]
               /\ dash' = IF basic THEN [dash EXCEPT !.stats = updateStats(stats)]
                          ELSE dash
          ELSE /\ chat' = [chat EXCEPT
                    !.messages = Append(@, ErrorMessage(chat.kind, chat.accepted)),
                    !.outcomes = Append(@, "rejected"), !.event = "settled",
                    !.pc = "idle", !.isProcessing = FALSE]
               /\ UNCHANGED dash
  /\ UNCHANGED <<genai, supabase, cache, stats, requestHistory, proc, started,
                 samples, ledger>>

\* An awaited saveMessage of EnhancedConversationInterface returns (it never
\* rejects): after the first the second is issued, after the second the
\* finally block clears the flag.
saveMessageSettled ==
  /\ chat.kind \in ChatKinds
  /\ chat.pc \in {"save_user", "save_assistant"}
  /\ chat' = IF chat.pc = "save_user"
               THEN [chat EXCEPT !.pc = "save_assistant", !.event = "saved"]
               ELSE [chat EXCEPT !.pc = "idle", !.isProcessing = FALSE,
                                 !.event = "saved"]
  /\ UNCHANGED <<genai, supabase, cache, stats, requestHistory, proc, started,
                 samples, ledger, dash>>

\* loadConversationHistory after getConversationHistory returned h (nothing
\* without a persistence client): the messages of the newest conversation,
\* however many, replace the list.
loadConversationHistorySettled(h) ==
  /\ chat.kind \in ChatKinds
  /\ chat.history = "loading"
  /\ ~supabase => h = <<>>
  /\ chat' = [chat EXCEPT !.history = "loaded", !.event = "history",
                          !.messages = IF Len(h) > 0
                                         THEN HistoryMessages(h[1].messages)
                                         ELSE @,
                          !.lost = IF Len(h) > 0 THEN chat.accepted ELSE @]
  /\ UNCHANGED <<genai, supabase, cache, stats, requestHistory, proc, started,
                 samples, ledger, dash>>

\* A call slot no running call occupies and no handler is waiting on; the
\* lowest one is taken.
FreeSlot(p) ==
  /\ proc[p].pc = "idle"
  /\ chat.pc = "awaiting" => p # chat.slot

LowestFree(p) == FreeSlot(p) /\ \A q \in Procs : q < p => ~FreeSlot(q)

\* A conversation component and its dashboard, on an instance with a
\* generation client.  The dashboard initializes the tiers; the user types
\* and sends as soon as the component is shown.
InitChat ==
  /\ InitFramework /\ genai
  /\ \E k \in ChatKinds : chat = InitialChat(k) /\ dash = InitialDash(HostOf(k))

NextChat ==
  \/ \E v \in ChatInputs : typeInput(v)
  \/ \E p \in Procs : LowestFree(p) /\ handleSendMessage(p)
  \/ handleSendMessageSettled
  \/ saveMessageSettled
  \/ \E h \in HistoryAnswers : loadConversationHistorySettled(h)
  \/ \E p \in Procs : LowestFree(p) /\ clearCacheClicked(p)
  \/ \E p \in Procs :
       \/ LowestFree(p) /\ dashboardStarts(p)
       \/ \E n \in TierTokenVals : dashboardTierCount(p, n)
       \/ \E s \in WindowScores, d \in ScoreDurations :
            scoreGenerateOk(p, s, d) /\ Observe(p)
       \/ \E n \in ScoreTokenVals : scoreCountOk(p, n) /\ Observe(p)
       \/ assessProfundityReturned(p) /\ Observe(p)
       \/ \E r \in Replies, d \in Durations : generateOk(p, r, d) /\ Observe(p)
       \/ generateFail(p) /\ Observe(p)
       \/ \E n \in TokenVals : countPayloadOk(p, n) /\ Observe(p)
       \/ \E n \in WindowTokenVals : countOutputOk(p, n) /\ Observe(p)
       \/ \E a \in ConcurrentInserts : storeConversation(p, a) /\ Observe(p)
       \/ storeConversationReturned(p) /\ Observe(p)

SpecChat == InitChat /\ [][NextChat]_vars

\* ============================================================ claims

\* The statistics a request accounts for (the cached-context tallies, which
\* only initializeTiers and clearCache set, left aside).
UsageView(s) ==
  [ totalTokensUsed |-> s.totalTokensUsed,
    profundityCheckTokens |-> s.profundityCheckTokens,
    finalResponseTokens |-> s.finalResponseTokens,
    memoryAnnotationTokens |-> s.memoryAnnotationTokens,
    multimediaTokens |-> s.multimediaTokens,
    inputTokens |-> s.inputTokens, outputTokens |-> s.outputTokens,
    totalRequests |-> s.totalRequests,
    averageResponseTime |-> s.averageResponseTime,
    costEstimate |-> s.costEstimate ]

\* C1: a processRequest called when there is no generation client, or when
\* the three tiers are not all cached, is rejected in the step that calls it:
\* no collaborator call is issued, and the statistics, the cache and the
\* request history are left as they were.
C1_RejectedBeforeAnyCall ==
  [][\A p \in Procs :
       ( /\ proc[p].pc = "idle"
         /\ proc'[p] # proc[p]
         /\ proc'[p].op = "processRequest"
         /\ (~genai \/ ~(TierKeys \subseteq DOMAIN cache)) )
       => ( /\ proc'[p].pc = "idle"
            /\ proc'[p].result.kind = "rejected"
            /\ proc'[p].issued = {}
            /\ started' = started
            /\ stats' = stats
            /\ cache' = cache
            /\ requestHistory' = requestHistory )]_vars

\* C1 witness: after requests were served and the cache was cleared, a
\* processRequest was rejected with no call issued.
C1_Witness ==
  \E p \in Procs :
    /\ proc[p].op = "processRequest" /\ proc[p].pc = "idle"
    /\ proc[p].result.kind = "rejected"
    /\ proc[p].issued = {}
    /\ genai /\ DOMAIN cache = {}
    /\ stats.totalRequests > 0

\* A processRequest of slot p has been rejected because its generation call
\* failed.
GenerationFailed(p) ==
  /\ proc[p].op = "processRequest" /\ proc[p].pc = "idle"
  /\ proc[p].result.kind = "rejected"
  /\ proc[p].fault = "generate"

\* C2 as claimed: after a processRequest whose generation call failed, the
\* usage statistics and the request history are what they were when
\* processRequest was called.
C2_Original ==
  \A p \in Procs :
    GenerationFailed(p) =>
      /\ UsageView(stats) = UsageView(proc[p].pre.stats)
      /\ requestHistory = proc[p].pre.history

\* C2 amended: after a processRequest whose generation call failed,
\* inputTokens, outputTokens, finalResponseTokens and costEstimate are what
\* they were when it was called; the other statistics and the history differ
\* only by the sample of the scoring step, which is there exactly when the
\* scoring call and its token count succeeded.
C2_OnlyScoringAccounted ==
  \A p \in Procs :
    GenerationFailed(p) =>
      LET old == proc[p].pre.stats
          entry == [ tokens |-> proc[p].scoreUsage,
                     response_time |-> proc[p].scoreTime,
                     model |-> "gemini-1.5-flash" ]
      IN /\ stats.inputTokens = old.inputTokens
         /\ stats.outputTokens = old.outputTokens
         /\ stats.finalResponseTokens = old.finalResponseTokens
         /\ stats.costEstimate = old.costEstimate
         /\ IF proc[p].scored
              THEN /\ stats.totalTokensUsed = old.totalTokensUsed + proc[p].scoreUsage
                   /\ stats.profundityCheckTokens
                        = old.profundityCheckTokens + proc[p].scoreUsage
                   /\ stats.totalRequests = old.totalRequests + 1
                   /\ requestHistory = Append(proc[p].pre.history, entry)
                   /\ stats.averageResponseTime
                        = RoundDiv(SumTimes(requestHistory), Len(requestHistory))
              ELSE /\ UsageView(stats) = UsageView(old)
                   /\ requestHistory = proc[p].pre.history

\* C2 witness: a generation call failed after the scoring step had been
\* accounted.
C2_Witness ==
  \E p \in Procs : GenerationFailed(p) /\ proc[p].scored /\ proc[p].scoreUsage > 0

\* The calls made so far are a successful initializeTiers followed by
\* processRequest calls that all resolved, and none is running.
OnlySuccessfulRequests ==
  /\ AllIdle
  /\ ledger.clean
  /\ ledger.calls >= 1
  /\ TierKeys \subseteq DOMAIN cache

\* C3 as claimed: after N successful processRequest calls, totalTokensUsed is
\* the sum of their input and output tokens plus the cached-context total.
C3_Original ==
  OnlySuccessfulRequests =>
    stats.totalTokensUsed = ledger.io + stats.cachedTokens

\* C3 amended: after N successful processRequest calls, totalTokensUsed is
\* the sum of their input and output tokens plus the tokens of the scoring
\* prompts that were counted; the cached-context total is not part of it.
C3_TotalIsRequestsPlusScoring ==
  OnlySuccessfulRequests =>
    stats.totalTokensUsed = ledger.io + ledger.scoring

\* C3 witness: two successful requests, one of them with its scoring counted.
C3_Witness ==
  /\ OnlySuccessfulRequests
  /\ ledger.calls = 2
  /\ ledger.scoring > 0
  /\ stats.cachedTokens > 0

\* C4: the generation call goes to the fast model when the score is 50 or
\* lower and to the high-capability model when it is 51 or more, and the
\* model_used and is_profound returned are those of the model called.
C4_RoutingThreshold ==
  \A p \in Procs :
    (proc[p].op = "processRequest" /\ proc[p].genModel # "none") =>
      /\ proc[p].assessment.profundity_score <= Points(50)
           => proc[p].genModel = "gemini-1.5-flash"
      /\ proc[p].assessment.profundity_score >= Points(51)
           => proc[p].genModel = "gemini-1.5-pro"
      /\ proc[p].result.kind = "resolved" =>
           /\ proc[p].result.model_used = proc[p].genModel
           /\ proc[p].result.is_profound = (proc[p].genModel = "gemini-1.5-pro")
           /\ proc[p].result.profundity_score = proc[p].assessment.profundity_score

\* C4 witness: a request scored exactly 50 was answered by the fast model.
C4_Witness ==
  \E p \in Procs :
    /\ proc[p].op = "processRequest"
    /\ proc[p].result.kind = "resolved"
    /\ proc[p].result.profundity_score = Points(50)
    /\ proc[p].result.model_used = "gemini-1.5-flash"

\* A processRequest of slot p is over, and its generation call had succeeded.
GeneratedAndOver(p) ==
  /\ proc[p].op = "processRequest" /\ proc[p].pc = "idle"
  /\ proc[p].genOk

\* C5 as claimed: with no persistence client, or with one whose insert
\* failed, a processRequest whose generation call succeeded resolves with the
\* generated text, and the statistics hold the update for that request.
C5_Original ==
  \A p \in Procs :
    (GeneratedAndOver(p) /\ (~supabase \/ proc[p].insertAnswer # "success")) =>
      /\ proc[p].result.kind = "resolved"
      /\ proc[p].result.main_response = proc[p].response
      /\ stats.inputTokens = proc[p].pre.stats.inputTokens + proc[p].usage
      /\ stats.outputTokens = proc[p].pre.stats.outputTokens + proc[p].outputTokens

\* C5, the part that holds: once the statistics of a request are updated, the
\* request resolves with the generated text whatever the persistence client
\* answers, and the update stays.
C5_PersistenceNeverRejects ==
  \A p \in Procs :
    (GeneratedAndOver(p) /\ proc[p].fault = "none") =>
      /\ proc[p].result.kind = "resolved"
      /\ proc[p].result.main_response = proc[p].response
      /\ stats.inputTokens = proc[p].pre.stats.inputTokens + proc[p].usage
      /\ stats.outputTokens = proc[p].pre.stats.outputTokens + proc[p].outputTokens

\* C6 as claimed: a processRequest accepted by an initialized instance is
\* rejected only when its generation call failed.
C6_Original ==
  \A p \in Procs :
    ( /\ proc[p].op = "processRequest" /\ proc[p].pc = "idle"
      /\ proc[p].pre.genai /\ proc[p].pre.tiers
      /\ proc[p].result.kind = "rejected" )
    => proc[p].fault = "generate"

\* C7: assessProfundity never rejects.  When its model call, the parsing of
\* the reply or its token count failed, it returns the fallback of score 25,
\* to its caller and to processRequest alike, and a processRequest is never
\* rejected at the scoring step.
C7_AssessNeverRejects ==
  \A p \in Procs :
    LET fallback == [ profundity_score |-> Points(25),
                      reasoning |-> "Error in assessment, defaulting to low profundity" ]
    IN /\ (proc[p].op = "assessProfundity" /\ proc[p].pc = "idle") =>
            /\ proc[p].result.kind = "resolved"
            /\ proc[p].scoreFault # "none" => proc[p].result.value = fallback
       /\ (proc[p].op = "processRequest" /\ proc[p].scoreFault # "none") =>
            /\ proc[p].assessment = fallback
            /\ proc[p].pc \notin {"score_generate", "score_count"}
            /\ proc[p].result.kind = "rejected" => proc[p].fault # "none"

\* C7 witness: the token count of the scoring prompt failed and
\* assessProfundity returned the fallback.
C7_Witness ==
  \E p \in Procs :
    /\ proc[p].op = "assessProfundity" /\ proc[p].pc = "idle"
    /\ proc[p].scoreFault = "score count"
    /\ proc[p].result.kind = "resolved"
    /\ proc[p].result.value.profundity_score = Points(25)

\* assessProfundity of slot p was called while the tiers were not cached and
\* is over.
AssessedWithoutTiers(p) ==
  /\ proc[p].op = "assessProfundity" /\ proc[p].pc = "idle"
  /\ ~proc[p].pre.tiers

\* C8 as claimed: assessProfundity called while the tiers are not cached
\* fails as not initialized and returns no score.
C8_Original ==
  \A p \in Procs :
    AssessedWithoutTiers(p) => proc[p].result.kind = "rejected"

\* C8 amended: assessProfundity does not need the tiers.  Called while they
\* are not cached it still returns a score: the keyword heuristic when there
\* is no generation client, otherwise the score of the model or the error
\* fallback.
C8_ScoresWithoutTiers ==
  \A p \in Procs :
    AssessedWithoutTiers(p) =>
      /\ proc[p].result.kind = "resolved"
      /\ proc[p].result.value.profundity_score \in Int
      /\ IF proc[p].pre.genai
           THEN proc[p].result.value.reasoning \in
                  { "model rationale",
                    "Error in assessment, defaulting to low profundity" }
           ELSE proc[p].result.value.reasoning \in
                  { "Complex theoretical question requiring deep analysis",
                    "Straightforward inquiry" }

\* C8 witness: with a client and no tier cached, assessProfundity returned
\* the score of the model.
C8_Witness ==
  \E p \in Procs :
    /\ AssessedWithoutTiers(p)
    /\ proc[p].pre.genai
    /\ proc[p].scored
    /\ proc[p].result.kind = "resolved"
    /\ proc[p].result.value.profundity_score = Points(51)

\* The step in which slot p updates the statistics of its request.
Accounts(p) ==
  /\ proc[p].pc = "count_output"
  /\ proc'[p].pc \in {"insert", "idle"}
  /\ proc'[p].fault = "none"

\* The number (in / 1000) * 0.00015 + (out / 1000) * 0.0006 as the claim
\* reads it: the double that stands for the decimal value of the sum,
\* 0.00075 for 1000 and 1000 tokens.
LinearCost(in, out) == DoubleOfRatio(15 * in + 60 * out, <<10000, 10000>>)

\* (in / 1000) * 0.00015 + (out / 1000) * 0.0006 in doubles, each quotient,
\* product and sum rounded, for the token counts of the requests.
RoundedCosts ==
  [ in \in TokenVals, out \in TokenVals |->
      DoubleAdd(DoubleMul(DoubleOfRatio(in, <<1000>>),
                          DoubleOfRatio(15, <<100, 1000>>)),
                DoubleMul(DoubleOfRatio(out, <<1000>>),
                          DoubleOfRatio(6, <<10, 1000>>))) ]

\* Only a step that accounts for a request changes costEstimate.
OnlyAccountingChangesCost ==
  stats'.costEstimate # stats.costEstimate => \E p \in Procs : Accounts(p)

\* C9 as stated: the step that accounts for a request adds exactly the
\* linear cost of its tokens (0.00075 for 1000 input and 1000 output
\* tokens), costEstimate is in every state that same linear function of the
\* cumulative inputTokens and outputTokens and never negative, and no other
\* step changes costEstimate.
C9_Original ==
  /\ [](/\ stats.costEstimate = LinearCost(stats.inputTokens, stats.outputTokens)
        /\ DoubleLeq(Zero, stats.costEstimate))
  /\ [][/\ \A p \in Procs :
             Accounts(p) =>
               stats'.costEstimate
                 = DoubleAdd(stats.costEstimate,
                             LinearCost(proc'[p].usage, proc'[p].outputTokens))
        /\ OnlyAccountingChangesCost]_vars

\* C9, amended: the step that accounts for a request adds to costEstimate
\* the double the code computes, the rounded sum of the two rounded products
\* (tokens / 1000) * rate, and the sum is rounded again; no other step
\* changes costEstimate; in every state costEstimate is not negative and is
\* the linear function of the cumulative inputTokens and outputTokens to
\* the nearest 1e-8 dollars.
C9_CostWithinRounding ==
  /\ [](/\ CostUnits(stats.costEstimate)
             = 15 * stats.inputTokens + 60 * stats.outputTokens
        /\ DoubleLeq(Zero, stats.costEstimate))
  /\ [][/\ \A p \in Procs :
             Accounts(p) =>
               stats'.costEstimate
                 = DoubleAdd(stats.costEstimate,
                             RoundedCosts[proc'[p].usage, proc'[p].outputTokens])
        /\ OnlyAccountingChangesCost]_vars

\* C9 witness: a request of 1000 input and 1000 output tokens resolved on a
\* fresh instance: costEstimate is 6917529027641081 * 2^-63, which prints as
\* 0.0007499999999999999, one unit in the last place below the double
\* 6917529027641082 * 2^-63 that 0.00075 is.
C9_RoundedBelow ==
  \E p \in Procs :
    /\ proc[p].op = "processRequest" /\ proc[p].result.kind = "resolved"
    /\ proc[p].usage = 1000 /\ proc[p].outputTokens = 1000
    /\ proc[p].pre.stats.costEstimate = Zero
    /\ stats.costEstimate = [m |-> Significand(69175290, 27641081), e |-> -63]
    /\ LinearCost(1000, 1000) = [m |-> Significand(69175290, 27641082), e |-> -63]

\* C10: once more than 100 latency samples have been recorded, the request
\* history holds 100 entries and averageResponseTime is the rounded mean of
\* the 100 samples recorded last.
C10_AverageOfLastHundred ==
  Len(samples) > 100 =>
    LET recent == SubSeq(samples, Len(samples) - 99, Len(samples)) IN
      /\ Len(requestHistory) = 100
      /\ \A i \in 1..100 : requestHistory[i].response_time = recent[i]
      /\ stats.averageResponseTime = (2 * SumSeq(recent) + 100) \div 200

\* C10 witness: 102 samples were recorded, a slow one among the two that left
\* the history, and the average differs from the mean of all samples.
C10_Witness ==
  /\ Len(samples) = 102
  /\ \E i \in 1..2 : samples[i] >= 200
  /\ stats.averageResponseTime
       # (2 * SumSeq(samples) + Len(samples)) \div (2 * Len(samples))

\* C11: totalTokensUsed never decreases, whatever operation takes a step:
\* initializeTiers, assessProfundity, processRequest (resolved or rejected),
\* generateMultimedia, getStats, updateApiKey; clearCache, the only reset
\* there is, leaves it alone too.
C11_TotalNeverDecreases ==
  [][stats'.totalTokensUsed >= stats.totalTokensUsed]_vars

\* A total that was built up by a request has survived a clearCache.
C11_Witness ==
  \E p \in SeqProcs :
    /\ proc[p].op = "clearCache"
    /\ proc[p].pre.stats.inputTokens > 0
    /\ stats.totalTokensUsed > 0

\* C12: when clearCache has returned, no tier is cached, cachedTokens and
\* the three per-tier counts are 0, and totalRequests, costEstimate and the
\* request history are what they were when it was called.
C12_ClearCacheFrame ==
  \A p \in SeqProcs :
    proc[p].op = "clearCache" =>
      /\ DOMAIN cache = {}
      /\ stats.cachedTokens = 0
      /\ stats.tier1Tokens = 0 /\ stats.tier2Tokens = 0 /\ stats.tier3Tokens = 0
      /\ stats.totalRequests = proc[p].pre.stats.totalRequests
      /\ stats.costEstimate = proc[p].pre.stats.costEstimate
      /\ requestHistory = proc[p].pre.history

\* clearCache was called with tiers cached and requests accounted for.
C12_Witness ==
  \E p \in SeqProcs :
    /\ proc[p].op = "clearCache"
    /\ proc[p].pre.tiers
    /\ proc[p].pre.stats.cachedTokens > 0
    /\ proc[p].pre.stats.totalRequests > 0
    /\ DoubleLess(Zero, proc[p].pre.stats.costEstimate)
    /\ proc[p].pre.history # <<>>

\* The step is a call of clearCache by slot p / the return of true by an
\* initializeTiers of slot p.
ClearStep(p) ==
  proc[p].pc = "idle" /\ proc'[p].op = "clearCache" /\ proc'[p] # proc[p]

InitializedStep(p) ==
  /\ proc[p].pc = "tier_count" /\ proc'[p].pc = "idle"
  /\ proc'[p].result = [kind |-> "returned", value |-> TRUE]

\* C13: the context is either ready (the three tiers cached) or not.  A
\* processRequest called with a client is rejected as not initialized when
\* the context is not ready and is accepted when it is; the context stops
\* being ready only by a clearCache and becomes ready only when an
\* initializeTiers returns true; clearCache leaves the generation client,
\* the usage statistics and the history alone; and in no state are the
\* operations refused (there is no terminal state).
C13_ContextStateMachine ==
  /\ [](\A p \in SeqProcs :
          /\ (proc[p].op = "processRequest" /\ proc[p].pre.genai) =>
               IF TiersCached(proc[p].pre.cache)
                 THEN \/ proc[p].pc # "idle"
                      \/ proc[p].result.kind = "resolved"
                      \/ proc[p].result.error \in
                           {"generate", "count payload", "count output"}
                 ELSE /\ proc[p].pc = "idle"
                      /\ proc[p].result =
                           [kind |-> "rejected",
                            error |-> "Tiers not initialized. Please call initializeTiers() first."]
          /\ AllIdle =>
               /\ ENABLED clearCache(p)
               /\ ENABLED initializeTiers(p)
               /\ \A m \in Messages : ENABLED processRequest(p, m))
  /\ [][ /\ (TiersCached(cache) /\ ~TiersCached(cache')) =>
              \E p \in SeqProcs : ClearStep(p)
         /\ (~TiersCached(cache) /\ TiersCached(cache')) =>
              \E p \in SeqProcs : InitializedStep(p)
         /\ \A p \in SeqProcs :
              /\ InitializedStep(p) => TiersCached(cache')
              /\ ClearStep(p) =>
                   /\ ~TiersCached(cache')
                   /\ genai' = genai /\ supabase' = supabase
                   /\ UsageView(stats') = UsageView(stats)
                   /\ requestHistory' = requestHistory ]_vars

\* An instance that has served a request and was then cleared is ready
\* again: initializeTiers has returned true on it.
C13_Witness ==
  \E p \in SeqProcs :
    /\ proc[p].op = "initializeTiers" /\ proc[p].pc = "idle"
    /\ proc[p].result = [kind |-> "returned", value |-> TRUE]
    /\ ~proc[p].pre.tiers
    /\ proc[p].pre.stats.inputTokens > 0
    /\ TiersCached(cache)

\* C14: initializeTiers never rejects.  It returns false when there is no
\* client and when a countTokens call throws, and then (as while it is still
\* counting) the cache, the statistics and the history are what they were
\* when it was called: no subset of the tiers is stored.  It returns true
\* only with three counts, the three tiers cached with those counts and
\* cachedTokens their sum.
C14_InitializeTiersAllOrNothing ==
  \A p \in SeqProcs :
    proc[p].op = "initializeTiers" =>
      LET q == proc[p]
          unchanged == /\ cache = q.pre.cache
                       /\ stats = q.pre.stats
                       /\ requestHistory = q.pre.history
      IN /\ q.result.kind \in {"none", "returned"}
         /\ q.pc = "tier_count" => unchanged
         /\ q.pc = "idle" =>
              /\ q.result.kind = "returned"
              /\ ~q.pre.genai => q.result.value = FALSE
              /\ q.fault = "tier count" => q.result.value = FALSE
              /\ q.result.value = FALSE =>
                   unchanged /\ (~q.pre.genai \/ q.fault = "tier count")
              /\ q.result.value = TRUE =>
                   /\ Len(q.tierCounts) = 3
                   /\ DOMAIN cache = TierKeys
                   /\ cache["tier1-pre"].tokens = q.tierCounts[1]
                   /\ cache["tier2-pre"].tokens = q.tierCounts[2]
                   /\ cache["tier3-pre"].tokens = q.tierCounts[3]
                   /\ stats.tier1Tokens = q.tierCounts[1]
                   /\ stats.tier2Tokens = q.tierCounts[2]
                   /\ stats.tier3Tokens = q.tierCounts[3]
                   /\ stats.cachedTokens = SumSeq(q.tierCounts)

\* initializeTiers has returned false after two of the three counts had
\* been answered.
C14_Witness ==
  \E p \in SeqProcs :
    /\ proc[p].op = "initializeTiers" /\ proc[p].pc = "idle"
    /\ proc[p].result = [kind |-> "returned", value |-> FALSE]
    /\ proc[p].fault = "tier count"
    /\ Len(proc[p].tierCounts) = 2

\* Slot p holds an object returned by getStats.
Holds(p) == proc[p].pc = "idle" /\ proc[p].op = "getStats"

MutateStep(p) ==
  \E f \in MutatedFields, v \in MutatedVals : mutateReturned(p, f, v)

\* C15: a getStats call changes nothing of the instance and returns the
\* current statistics; writing into a returned object leaves the statistics
\* (so what a later getStats returns) unchanged; and an object that is held
\* reads the same after any step that is not a write of its holder.
C15_GetStatsCopies ==
  [][\A p \in Procs :
       /\ ( /\ proc[p].pc = "idle" /\ proc'[p].op = "getStats"
            /\ proc'[p] # proc[p] /\ ~MutateStep(p) ) =>
            /\ proc'[p].result.value.fields = stats
            /\ stats' = stats /\ cache' = cache
            /\ requestHistory' = requestHistory /\ genai' = genai
       /\ MutateStep(p) =>
            /\ stats' = stats /\ cache' = cache
            /\ requestHistory' = requestHistory
       /\ (Holds(p) /\ proc'[p] = proc[p] /\ ~MutateStep(p)) =>
            Fields(proc[p].result.value)' = Fields(proc[p].result.value)
    ]_vars

\* One slot holds an object into which its holder has written and which no
\* longer matches the statistics; the other holds what a later getStats
\* returned, the statistics as they are.
C15_Witness ==
  \E p, q \in Procs :
    /\ Holds(p) /\ Holds(q)
    /\ proc[p].result.value.fields.totalRequests = 999
    /\ proc[p].result.value.fields.totalTokensUsed < stats.totalTokensUsed
    /\ proc[q].result.value.fields = stats
    /\ stats.totalRequests = 2

\* Slot p holds the result of an assessProfundity called without a client.
HeuristicResult(p) ==
  proc[p].op = "assessProfundity" /\ ~proc[p].pre.genai

\* C16: without a generation client assessProfundity resolves at once with
\* a result that depends on the message alone: the score is
\* min(100, min(length / 10, 30) + 15 for each vocabulary word the text
\* contains), the rationale says "complex" when the uncapped sum exceeds 50;
\* two calls with the same message return the same result whatever was
\* called in between.
C16_HeuristicIsPure ==
  \A p \in Procs :
    HeuristicResult(p) =>
      LET m == proc[p].request
          \* in tenths of a point: length / 10 points are length tenths
          sum == Min(m.len, Points(30))
                   + Points(15) * Cardinality(m.kw \cap ComplexityIndicators)
      IN /\ proc[p].pc = "idle"
         /\ proc[p].result.kind = "resolved"
         /\ proc[p].result.value.profundity_score = Min(Points(100), sum)
         /\ proc[p].result.value.reasoning =
              (IF sum > Points(50)
                 THEN "Complex theoretical question requiring deep analysis"
                 ELSE "Straightforward inquiry")
         /\ stats = proc[p].pre.stats /\ requestHistory = proc[p].pre.history
         /\ \A q \in Procs :
              (HeuristicResult(q) /\ proc[q].request = m) =>
                proc[q].result = proc[p].result

\* Two calls with the same message of five vocabulary words were answered
\* with the capped score.
C16_Witness ==
  \E p, q \in Procs :
    /\ p # q /\ HeuristicResult(p) /\ HeuristicResult(q)
    /\ proc[p].request = proc[q].request
    /\ Cardinality(proc[p].request.kw) = 5 /\ proc[p].request.len = 300
    /\ proc[p].result.value.profundity_score = Points(100)
    /\ proc[q].result.value.profundity_score = Points(100)

\* The score a settled call handed to its caller.
ReturnedScore(p) ==
  IF proc[p].op = "assessProfundity"
    THEN proc[p].result.value.profundity_score
    ELSE proc[p].result.profundity_score

HasScore(p) ==
  /\ proc[p].op \in {"assessProfundity", "processRequest"}
  /\ proc[p].pc = "idle" /\ proc[p].result.kind = "resolved"

\* C17 as stated: the score returned by assessProfundity and the
\* profundity_score of every ProcessingResult lie in 0..100, whichever path
\* produced them.
C17_Original ==
  \A p \in Procs : HasScore(p) => ReturnedScore(p) \in 0..Points(100)

\* What does hold: the heuristic and the fallback scores lie in 0..100, and a
\* score outside is the one the scoring model replied.
C17_OnlyModelScoresEscape ==
  \A p \in Procs :
    HasScore(p) =>
      \/ ReturnedScore(p) \in 0..Points(100)
      \/ /\ proc[p].pre.genai /\ proc[p].scored /\ proc[p].scoreFault = "none"
         /\ ReturnedScore(p) = proc[p].assessment.profundity_score

\* Slot p holds a processRequest whose statistics update has run.
Recorded(p) ==
  /\ proc[p].op = "processRequest"
  /\ \/ proc[p].pc \in {"insert", "stored"}
     \/ proc[p].pc = "idle" /\ proc[p].result.kind = "resolved"

\* C19 as stated: the latency that processRequest records in the history
\* and reports as response_time is the time the generation call took.
C19_Original ==
  \A p \in SeqProcs :
    /\ Recorded(p) =>
         requestHistory[Len(requestHistory)].response_time = proc[p].genTime
    /\ (Recorded(p) /\ proc[p].pc = "idle") =>
         proc[p].result.response_time = proc[p].genTime

\* C19, amended: the latency that processRequest records and reports runs
\* from the entry of processRequest to the return of the generation call: it
\* is the time of the scoring call plus the time of the generation call.
C19_LatencyFromEntry ==
  \A p \in SeqProcs :
    /\ Recorded(p) =>
         requestHistory[Len(requestHistory)].response_time
           = proc[p].scoreElapsed + proc[p].genTime
    /\ (Recorded(p) /\ proc[p].pc = "idle") =>
         proc[p].result.response_time = proc[p].scoreElapsed + proc[p].genTime

\* A request resolved whose scoring call took 30 ms and whose generation
\* call took 10 ms: it reports 40 ms.
C19_Witness ==
  \E p \in SeqProcs :
    /\ Recorded(p) /\ proc[p].pc = "idle" /\ proc[p].scored
    /\ proc[p].scoreElapsed = 30 /\ proc[p].genTime = 10
    /\ proc[p].result.response_time = 40

\* Slot p holds the result of an assessProfundity that was called by itself.
AssessedAlone(p) == proc[p].op = "assessProfundity" /\ proc[p].pc = "idle"

\* The instance is as the method of slot p found it.
AsFound(p) ==
  /\ stats = proc[p].pre.stats
  /\ requestHistory = proc[p].pre.history
  /\ cache = proc[p].pre.cache

\* C20 as stated: on the heuristic path and whenever assessProfundity
\* returned its error fallback, the statistics, the history and the cache
\* are what they were.
C20_Original ==
  \A p \in SeqProcs :
    (AssessedAlone(p) /\ (~proc[p].pre.genai \/ proc[p].scoreFault # "none"))
      => AsFound(p)

\* What does hold: assessProfundity never changes the cache, inputTokens,
\* outputTokens or costEstimate.  While its calls are awaited, on the
\* heuristic path and when the scoring call, the parse of its reply or the
\* token count failed, nothing has changed.  Once the scoring call, the
\* parse and the token count have succeeded, profundityCheckTokens and
\* totalTokensUsed have grown by the counted tokens, totalRequests by 1, the
\* history by the sample of the scoring call and the average is recomputed:
\* also when the result is the error fallback because the reply was null.
C20_AssessFrame ==
  \A p \in SeqProcs :
    LET q == proc[p] IN
      /\ ( /\ q.op \in {"assessProfundity", "processRequest"}
           /\ q.pc \in {"score_generate", "score_count"} ) => AsFound(p)
      /\ AssessedAlone(p) =>
           /\ cache = q.pre.cache
           /\ ~q.pre.genai => ~q.scored
           /\ q.scoreFault \in {"score call", "score parse", "score count"}
                => ~q.scored
           /\ q.scoreFault = "score log" => q.scored
           /\ IF q.scored
                THEN /\ q.pre.genai /\ q.issued = {"score", "countTokens"}
                     /\ requestHistory =
                          Append(q.pre.history,
                                 [tokens |-> q.scoreUsage,
                                  response_time |-> q.scoreElapsed,
                                  model |-> FlashModel])
                     /\ stats =
                          [q.pre.stats EXCEPT
                             !.profundityCheckTokens = @ + q.scoreUsage,
                             !.totalTokensUsed = @ + q.scoreUsage,
                             !.totalRequests = @ + 1,
                             !.averageResponseTime =
                               RoundDiv(SumTimes(requestHistory),
                                        Len(requestHistory))]
                ELSE AsFound(p)

IsRequestSample(e) == e.kind = "request"

\* The slots of the request samples of the observer's log, in its order.
RequestSlots ==
  LET r == SelectSeq(ledger.log, IsRequestSample)
  IN [i \in DOMAIN r |-> r[i].slot]

\* The observer's log as history entries.
\* The costs of the first n samples of the log, added up one after the
\* other (a scoring sample costs nothing).
RECURSIVE LoggedCost(_)
LoggedCost(n) ==
  IF n = 0 THEN Zero
  ELSE IF ledger.log[n].kind = "request"
    THEN DoubleAdd(LoggedCost(n - 1),
                   RoundedCosts[ledger.log[n].input, ledger.log[n].output])
  ELSE LoggedCost(n - 1)

LoggedHistory ==
  [i \in DOMAIN ledger.log |->
     [ tokens |-> ledger.log[i].tokens,
       response_time |-> ledger.log[i].response_time,
       model |-> ledger.log[i].model ]]

\* C18 as stated: once all concurrent calls have settled, the totals are the
\* sums of what the resolved calls contributed (their input and output
\* tokens, their cost, their scoring tokens, one or two requests each), and
\* the request samples are in the history in the order the calls resolved.
C18_Original ==
  AllIdle =>
    /\ stats.inputTokens = ledger.input
    /\ stats.outputTokens = ledger.output
    /\ stats.costEstimate = LoggedCost(Len(ledger.log))
    /\ stats.totalTokensUsed = ledger.io + ledger.okScoring
    /\ stats.totalRequests = ledger.calls + ledger.okScorings
    /\ requestHistory = LoggedHistory
    /\ RequestSlots = ledger.settled

\* C18, amended: in every interleaving and at every moment, inputTokens,
\* outputTokens and costEstimate are the sums over the calls whose
\* statistics update has run, and totalTokensUsed and totalRequests are
\* those sums plus the accounting of every scoring step that succeeded, the
\* one of a call that was rejected afterwards included; nothing is lost or
\* counted twice.  The samples are in the history in the order in which the
\* calls took them; that is the order in which the calls resolve when there
\* is no persistence client.
C18_NoLostUpdate ==
  /\ stats.inputTokens = ledger.input
  /\ stats.outputTokens = ledger.output
  /\ stats.costEstimate = LoggedCost(Len(ledger.log))
  /\ CostUnits(stats.costEstimate) = 15 * ledger.input + 60 * ledger.output
  /\ stats.totalTokensUsed = ledger.input + ledger.output + ledger.scoring
  /\ stats.totalRequests = Len(RequestSlots) + ledger.scorings
  /\ requestHistory = LoggedHistory
  /\ ~supabase => RequestSlots = ledger.settled

\* Two calls ran at the same time (both were scored before either was
\* answered), both resolved, and they resolved in the other order than the
\* one in which their samples were taken.
C18_Witness ==
  /\ AllIdle /\ supabase
  /\ Len(ledger.log) = 4 /\ Len(ledger.settled) = 2
  /\ ledger.log[1].kind = "scoring" /\ ledger.log[2].kind = "scoring"
  /\ ledger.log[1].slot # ledger.log[2].slot
  /\ RequestSlots # ledger.settled
  /\ stats.outputTokens = 1001

\* Slot p has handed a row to the persistence insert.
Forwarded(p) ==
  /\ proc[p].op = "processRequest"
  /\ proc[p].row # NoResult

\* The row of slot p describes the exchange of slot p, the latency aside.
OwnExchange(p) ==
  LET q == proc[p] IN
    /\ q.row.user_request = q.request
    /\ q.row.ai_response = q.response
    /\ q.row.model_used = q.targetModel
    /\ q.row.token_usage.input_tokens = q.usage
    /\ q.row.token_usage.output_tokens = q.outputTokens
    /\ q.row.token_usage.total_tokens = q.usage + q.outputTokens
    /\ q.row.token_usage.cost_estimate = RoundedCosts[q.usage, q.outputTokens]
    /\ CostUnits(q.row.token_usage.cost_estimate)
         = 15 * q.usage + 60 * q.outputTokens

\* C21 as stated: the row forwarded to the persistence client holds the
\* prompt, the response text, the routed model, the token counts and the
\* cost of its own request, and the latency measured for that request.
C21_Original ==
  \A p \in SeqProcs :
    Forwarded(p) =>
      OwnExchange(p) /\ proc[p].row.response_time_ms = proc[p].responseTime

\* What does hold: everything but the latency is the request's own; the
\* latency of the row is the average over the history at that moment.
C21_RowHoldsAverage ==
  \A p \in SeqProcs :
    Forwarded(p) =>
      /\ OwnExchange(p)
      /\ proc[p].row.response_time_ms
           = RoundDiv(SumTimes(requestHistory), Len(requestHistory))

\* C26: the request history holds at most 100 entries, as many as
\* min(100, totalRequests), and averageResponseTime is the mean of the
\* response_time of the entries now in the history, rounded to the nearest
\* integer (0 while the history is empty).
C26_HistoryMatchesCounters ==
  LET n == Len(requestHistory) IN
    /\ n <= 100
    /\ n = Min(100, stats.totalRequests)
    /\ stats.averageResponseTime
         = IF n = 0 THEN 0
           ELSE (2 * SumTimes(requestHistory) + n) \div (2 * n)

\* C26 witness: between two calls, more requests were counted than the
\* history holds, and the mean of the 100 entries is not a whole number.
C26_Witness ==
  /\ AllIdle
  /\ stats.totalRequests > 100 /\ Len(requestHistory) = 100
  /\ SumTimes(requestHistory) % 100 # 0

\* C27: totalTokensUsed is inputTokens + outputTokens + profundityCheckTokens,
\* finalResponseTokens is outputTokens, and cachedTokens is the sum of the
\* three tier counts, which is 0 exactly when no tier is cached or every
\* cached tier counts 0 tokens.
C27_TokenIdentities ==
  /\ stats.totalTokensUsed
       = stats.inputTokens + stats.outputTokens + stats.profundityCheckTokens
  /\ stats.finalResponseTokens = stats.outputTokens
  /\ stats.cachedTokens
       = stats.tier1Tokens + stats.tier2Tokens + stats.tier3Tokens
  /\ stats.cachedTokens = 0 <=> \A k \in DOMAIN cache : cache[k].tokens = 0

\* C27 witness: a request was answered from three cached tiers that count 0
\* tokens each, after tiers counting 3 tokens had been cleared.
C27_Witness ==
  /\ AllIdle /\ TiersCached(cache)
  /\ \A k \in TierKeys : cache[k].tokens = 0
  /\ stats.cachedTokens = 0
  /\ stats.outputTokens > 0 /\ stats.profundityCheckTokens > 0
  /\ \E p \in Procs :
       /\ proc[p].op = "clearCache"
       /\ proc[p].pre.stats.cachedTokens = 9

\* C29 as stated: the cache-efficiency percentage, as getCacheStatus and as
\* the dashboard compute it from the statistics, is an integer from 0 to
\* 100 in every state, also right after initializeTiers.
C29_Original ==
  /\ efficiency_percentage(stats) \in 0..100
  /\ cacheEfficiency(stats) \in 0..100

\* What does hold: both percentages are natural numbers, and they stay
\* within 100 as long as no more tokens are cached than were used.
C29_WithinHundredWhenUsed ==
  /\ efficiency_percentage(stats) \in Nat
  /\ cacheEfficiency(stats) \in Nat
  /\ (stats.cachedTokens <= stats.totalTokensUsed) =>
       /\ efficiency_percentage(stats) <= 100
       /\ cacheEfficiency(stats) <= 100

\* The requests of a list that generateMultimedia supports, in their order.
Supported(reqs) ==
  SelectSeq(reqs, LAMBDA r : r.type \in {"plotly", "threejs", "image"})

\* Slot p holds the responses of a generateMultimedia call.
HoldsMedia(p) == proc[p].op = "generateMultimedia"

\* The responses slot p holds are one per supported request, in request
\* order.
InRequestOrder(p) ==
  LET reqs == Supported(proc[p].request)
      out == proc[p].result.value
  IN /\ Len(out) = Len(reqs)
     /\ \A i \in 1..Len(out) : out[i].type = reqs[i].type

\* Slot p makes a generateMultimedia call in this step.
MediaStep(p) == proc'[p] # proc[p] /\ proc'[p].op = "generateMultimedia"

\* The prompt of request r makes its generator call Math.random().
DrawsRandom(r) ==
  \/ r.type = "plotly" /\ r.prompt = "scatter"
  \/ r.type = "threejs" /\ r.prompt \in {"network", "graph"}

\* C24 as stated: two generateMultimedia calls with the same requests return
\* the same data; the responses are one per supported request, in request
\* order; and the call reads and writes none of statistics, cache and
\* request history.
C24_Original ==
  /\ [](\A p, q \in Procs :
          HoldsMedia(p) =>
            /\ InRequestOrder(p)
            /\ (HoldsMedia(q) /\ proc[p].request = proc[q].request)
                 => proc[p].result.value = proc[q].result.value)
  /\ [][\A p \in Procs :
          MediaStep(p) => UNCHANGED <<stats, cache, requestHistory>>]_vars

\* What does hold: order and frame as stated, and the same data for the
\* same requests when no prompt asks for a scatter plot, a network or a
\* graph, whatever the state of the instance at the two calls.
C24_CannedWithoutRandom ==
  /\ [](\A p, q \in Procs :
          HoldsMedia(p) =>
            /\ InRequestOrder(p)
            /\ ( /\ HoldsMedia(q) /\ proc[p].request = proc[q].request
                 /\ \A i \in DOMAIN proc[p].request :
                      ~DrawsRandom(proc[p].request[i]) )
                 => proc[p].result.value = proc[q].result.value)
  /\ [][\A p \in Procs :
          MediaStep(p) => UNCHANGED <<stats, cache, requestHistory>>]_vars

\* Slot p runs or ran a processRequest that passed both entry checks.
PassedEntry(p) ==
  /\ proc[p].op = "processRequest"
  /\ proc[p].pre.genai /\ proc[p].pre.tiers

\* The processRequest of slot p was rejected (here: after its entry checks).
RejectedLate(p) ==
  PassedEntry(p) /\ proc[p].pc = "idle" /\ proc[p].result.kind = "rejected"

\* The processRequest of slot p has built its payload.
Routed(p) ==
  PassedEntry(p) /\ proc[p].targetModel # "none"

\* C25 as stated: a processRequest that passed the tier check and finds the
\* cache cleared when its scoring call returns either builds its payload
\* from the three tiers, or is rejected with the 'Tiers not initialized'
\* error and leaves the usage statistics as it found them.  (Every awaited
\* call of a request succeeds here, so a cleared cache is the only reason
\* for a rejection after the entry checks.)
C25_Original ==
  \A p \in SeqProcs :
    /\ Routed(p) => proc[p].payload = <<"tier1", "tier2", "tier3">>
    /\ RejectedLate(p) =>
         /\ proc[p].result.error
              = "Tiers not initialized. Please call initializeTiers() first."
         /\ UsageView(stats) = UsageView(proc[p].pre.stats)

\* What does hold: a request that gets as far as the generation call has
\* the three tiers in its payload; one that finds a tier missing after the
\* scoring call is rejected with a TypeError, and its scoring step stays
\* accounted.
C25_ClearedWhileScoring ==
  \A p \in SeqProcs :
    /\ Routed(p) => proc[p].payload = <<"tier1", "tier2", "tier3">>
    /\ RejectedLate(p) =>
         /\ proc[p].result.error = "TypeError"
         /\ proc[p].scored
         /\ stats.totalRequests = proc[p].pre.stats.totalRequests + 1
         /\ stats.profundityCheckTokens
              = proc[p].pre.stats.profundityCheckTokens + proc[p].scoreUsage
         /\ stats.inputTokens = proc[p].pre.stats.inputTokens
         /\ stats.outputTokens = proc[p].pre.stats.outputTokens

\* The processRequest calls that have not settled yet.
InFlight == {p \in Procs : proc[p].op = "processRequest" /\ proc[p].pc # "idle"}

\* This step is a call of handleSendMessage.
SendStep == chat'.event \in {"send", "ignored"} /\ chat' # chat

\* C22: a conversation component has at most one processRequest in flight;
\* a handleSendMessage called while the flag is set, or with an input that
\* is empty or blank, starts no request and appends no message.
C22_OneRequestInFlight ==
  /\ [](Cardinality(InFlight) <= 1)
  /\ [][(SendStep /\ (chat.isProcessing \/ chat.input.text = ""))
          => /\ chat'.messages = chat.messages
             /\ proc' = proc /\ started' = started]_vars

\* C22 witness: handleSendMessage was called with a blank input while a
\* request was in flight, and nothing but the record of that call changed.
C22_Witness ==
  /\ chat.kind \in ChatKinds
  /\ chat.event = "ignored" /\ chat.isProcessing
  /\ Cardinality(InFlight) = 1
  /\ Len(chat.messages) = 3 /\ chat.accepted = 2
  /\ chat.messages[3].kind = "user"

\* The places of the list that hold the user's message of accepted send i,
\* and those that hold an answer to it.
UserEntries(i) ==
  {j \in DOMAIN chat.messages :
     chat.messages[j].send = i /\ chat.messages[j].kind = "user"}

AnswerEntries(i) ==
  {j \in DOMAIN chat.messages :
     chat.messages[j].send = i /\ chat.messages[j].kind # "user"}

\* An entry that shows a response of the model, and one that shows an error
\* and cannot be taken for a response.
IsAiEntry(m) == m.kind \in {"ai", "assistant"} /\ m.modelUsed # "none"
IsErrorEntry(m) == m.kind = "error" \/ (m.kind = "assistant" /\ m.modelUsed = "none")

\* Accepted send i is in the list with what the claim asks for: its user
\* message once, and once its processRequest has settled exactly one answer
\* after it, an AI message if the call resolved and an error entry if not.
Answered(i) ==
  /\ Cardinality(UserEntries(i)) = 1
  /\ IF i <= Len(chat.outcomes)
       THEN /\ Cardinality(AnswerEntries(i)) = 1
            /\ \A u \in UserEntries(i), a \in AnswerEntries(i) :
                 /\ u < a
                 /\ chat.outcomes[i] = "resolved" => IsAiEntry(chat.messages[a])
                 /\ chat.outcomes[i] = "rejected" => IsErrorEntry(chat.messages[a])
       ELSE AnswerEntries(i) = {}

\* C23 as stated: every accepted send keeps its user message in the list
\* and, once processRequest has settled, is followed by exactly one AI
\* message (resolved) or exactly one distinguishable error entry
\* (rejected); when the handler is done the flag is false again.
C23_Original ==
  /\ chat.kind \in ChatKinds =>
       /\ \A i \in 1..chat.accepted : Answered(i)
       /\ chat.pc = "idle" <=> ~chat.isProcessing

\* What does hold: the same for every send accepted after the stored
\* conversation was loaded, and for every send when none was loaded (always
\* so in ConversationInterface).  A stored conversation that arrives after a
\* send replaces the list, the user's message included.
C23_AnsweredUnlessReplaced ==
  /\ chat.kind \in ChatKinds =>
       /\ \A i \in (chat.lost + 1)..chat.accepted : Answered(i)
       /\ chat.pc = "idle" <=> ~chat.isProcessing
       /\ chat.kind = "ConversationInterface" => chat.lost = 0

\* The Session Cost line of ConversationInterface: the costEstimate of the
\* messages added up from the first to the last, starting at 0 (a message
\* without one counts 0).
RECURSIVE SessionCost(_)
SessionCost(ms) ==
  IF ms = <<>> THEN Zero
  ELSE DoubleAdd(SessionCost(SubSeq(ms, 1, Len(ms) - 1)),
                 ms[Len(ms)].costEstimate)

\* The AI messages of the list.
AiMessages == SelectSeq(chat.messages, LAMBDA m : m.kind = "ai")

\* ConversationInterface is mounted and neither it nor the instance is in
\* the middle of anything.
ChatAtRest ==
  chat.kind = "ConversationInterface" /\ chat.pc = "idle" /\ AllIdle

\* C28 as stated: the Session Cost of ConversationInterface is the cost
\* incurred in the session, the growth of the instance's costEstimate since
\* the component was mounted (when it was 0).
C28_Original ==
  ChatAtRest => SessionCost(chat.messages) = stats.costEstimate

\* What does hold: every AI message carries the instance's running total at
\* the time of its answer, so the last one alone is the cost of the session
\* and the Session Cost is the sum of the running totals.
C28_LastMessageHoldsTotal ==
  ChatAtRest =>
    /\ AiMessages # <<>> =>
         AiMessages[Len(AiMessages)].costEstimate = stats.costEstimate
    /\ AiMessages = <<>> => stats.costEstimate = Zero
    /\ SessionCost(chat.messages) = SessionCost(AiMessages)
    /\ DoubleLeq(stats.costEstimate, SessionCost(chat.messages))
    /\ Len(AiMessages) <= 1 => SessionCost(chat.messages) = stats.costEstimate

\* C30 as stated: the framework is marked initialized only when
\* initializeTiers on that framework returned true; after an attempt whose
\* initializeTiers returned false, or that threw, no framework is exposed
\* to the conversation and the connection status is 'error'; isConnecting
\* is false after every outcome; Disconnect leaves the disconnected state
\* with no framework.
C30_Original ==
  dash.kind \in DashKinds =>
    /\ (dash.framework # 0 /\ dash.isInitialized)
         => dash.attempts[dash.framework] = "true"
    /\ (dash.event = "settled" /\ dash.attempts[dash.last] # "true")
         => /\ ~Exposed(dash)
            /\ dash.kind = "connect" => dash.connectionStatus = "error"
    /\ dash.event = "settled" => ~dash.isConnecting
    /\ dash.event = "disconnect"
         => /\ dash.framework = 0 /\ ~dash.isInitialized
            /\ dash.connectionStatus = "disconnected"

\* What does hold: all of it in the dashboard with the connection screen,
\* as long as no attempt is started while another is waiting for
\* initializeTiers.
C30_ConnectOneAtATime ==
  (dash.kind = "connect" /\ ~dash.overlapped) =>
    /\ (dash.framework # 0 /\ dash.isInitialized)
         => dash.attempts[dash.framework] = "true"
    /\ (dash.event = "settled" /\ dash.attempts[dash.last] # "true")
         => ~Exposed(dash) /\ dash.connectionStatus = "error"
    /\ dash.event = "settled" => ~dash.isConnecting
    /\ Pending(dash) = {} => ~dash.isConnecting
    /\ dash.event = "disconnect"
         => /\ dash.framework = 0 /\ ~dash.isInitialized
            /\ dash.connectionStatus = "disconnected"

====
